---- MODULE Spec2Model ----
(***************************************************************************)
(* Document-processing pipeline: constraint checker and divider            *)
(* (divide.py), extraction adapter (extraction.py), single-file and batch  *)
(* orchestrators (processor.py), record store (database_manager.py),       *)
(* upload and cleanup routes (document_router.py).                         *)
(*                                                                         *)
(* Modelling conventions                                                   *)
(*  - A path is a record [uid, stem, conv, chunk, ext]:                     *)
(*    "[<uid>_]<stem>[_converted][_chunk_<n>]<ext>"; uid > 0 is the upload *)
(*    id the /process route puts before the file name, conv counts the     *)
(*    _converted suffixes, chunk = 0 means no chunk suffix.                *)
(*  - The upload directory is a function fs from the existing paths to     *)
(*    file contents.  A content is [pdf, base, pages, data]: pdf = whether *)
(*    PdfReader can open it; pages is its sequence of pages, each          *)
(*    [id, size] (id: the page's index in the uploaded document, size: its *)
(*    bytes); data is the byte sequence of a file that is not a PDF.  The  *)
(*    byte size of a PDF is base (the bytes outside any page) plus the sum *)
(*    of its pages' sizes; a PDF written by PdfWriter has base 0.          *)
(*  - A text is a sequence of tokens; the empty text is << >>.             *)
(*  - Failures of the collaborators (conversion backends, chunk writes,    *)
(*    remote service, os.remove, output files) are choices of the          *)
(*    environment; faults bounds how many one pipeline run may contain.    *)
(*    A write that raises may leave the file it had opened, empty or       *)
(*    partly written.  The record store as shipped does not fail.          *)
(*  - ops lists the collaborator calls of the running process_single_file; *)
(*    an os.remove or error-file write that raised is logged with the      *)
(*    suffix _raised.                                                      *)
(***************************************************************************)
EXTENDS Integers, Sequences, FiniteSets, TLC

\* ------------------------------------------------------------------ bounds
MaxBytesBound == 3      \* configured MAX_FILE_SIZE_BYTES ranges over 1..MaxBytesBound
MaxPagesBound == 3      \* configured MAX_PDF_PAGES ranges over 1..MaxPagesBound
MaxDocPages   == 4      \* pages of an uploaded PDF
MaxPageSize   == 2      \* bytes of one page
MaxPdfBase    == 2      \* bytes of an uploaded PDF outside its pages
MaxRawLen     == 4      \* bytes of an uploaded file that is not a PDF
MaxByte       == 1      \* byte values are 0..MaxByte
MaxFiles      == 3      \* paths given to one batch
MaxFault      == 2      \* the injected write failure hits chunk 1..MaxFault
MaxPipeBytes  == 2      \* MAX_FILE_SIZE_BYTES in the pipeline runs
MaxPipePages  == 2      \* MAX_PDF_PAGES ranges over 1..MaxPipePages in the pipeline runs
MaxFileFaults == 3      \* failures injected into one process_single_file run
MaxBatchFaults == 2     \* failures injected into one process_multiple_files run
MaxConvertCalls == 2    \* convert_to_pdf calls chained in the normalizer runs
MaxSaves      == 3      \* _save_extracted_text calls in the output-file runs
MaxExtractCalls == 2    \* process_document calls in the extraction-adapter runs
MaxUploads    == 1      \* files uploaded by one /process request

VARIABLES
    maxBytes,       \* Config.MAX_FILE_SIZE_BYTES
    maxPages,       \* Config.MAX_PDF_PAGES
    fs,             \* upload directory: existing path -> content
    dpc,            \* divider harness: "call" | "returned" | "cleaned"
    dpath,          \* divider harness: the path given to check_and_divide_file
    dfault,         \* divider harness: the failure injected into the chunk writes
    dret,           \* divider harness: the list check_and_divide_file returned
    outputs,        \* OUTPUT_DIR: existing output file name -> what was written
    client,         \* TextExtractor.client is initialised
    faults,         \* failures the environment may still inject
    save_output,    \* process_single_file / process_multiple_files argument
    file_path,      \* process_single_file argument
    pc,             \* process_single_file: position in the code
    result,         \* process_single_file: the result dict
    pdf_file_path,  \* process_single_file local
    file_chunks,    \* process_single_file local
    j,              \* process_single_file local: chunks whose iteration completed
    all_extracted_text,   \* process_single_file local
    extraction_results,   \* process_single_file local
    exc,            \* process_single_file: str(e) of the exception being handled
    ops,            \* calls made to collaborators during the current process_single_file
    file_paths,     \* process_multiple_files argument
    bi,             \* process_multiple_files: loop index i
    results,        \* process_multiple_files: the results dict
    bpc,            \* process_multiple_files: "none" (no call is running) | "loop" |
                    \* "returned"
    rpc,            \* /process handler: "none" | "request" | "open" | "write" | "close" |
                    \* "processing" | "responded" | "failed" | "swept" (it
                    \* returned and DELETE /cleanup was served since)
    request,        \* /process handler: the files of the request
    upload_info,    \* /process handler local uploaded_files
    scheduled,      \* background tasks: the paths scheduled for cleanup_uploaded_file
    response,       \* what the /process handler returned or raised
    cpath,          \* normalizer harness: the path given to the first convert_to_pdf call
    cconv,          \* normalizer harness: what the backends did in the latest call
    ccalls,         \* normalizer harness: the convert_to_pdf calls made, in order
    saves,          \* output harness: the _save_extracted_text calls made, in order
    xcalls,         \* extraction harness: the process_document calls made, in order
    spc,            \* stepwise divider: position in check_and_divide_file
    per_chunk,      \* _divide_pdf_by_pages argument pages_per_chunk
    start_page,     \* _divide_pdf_by_pages local
    offset,         \* _divide_large_file: read position of input_file
    chunk_num,      \* _divide_pdf_by_pages / _divide_large_file local
    chunk_paths     \* _divide_pdf_by_pages / _divide_large_file local

cfgvars == <<maxBytes, maxPages>>
dvars == <<dpc, dpath, dfault, dret>>
fvars == <<file_path, pc, result, pdf_file_path, file_chunks, j, all_extracted_text,
           extraction_results, exc, ops>>
bvars == <<file_paths, bi, results, bpc>>
svars == <<spc, per_chunk, start_page, offset, chunk_num, chunk_paths>>
rvars == <<rpc, request, upload_info, scheduled, response>>
hvars == <<cpath, cconv, ccalls, saves, xcalls, svars, rvars>>
vars == <<maxBytes, maxPages, fs, dpc, dpath, dfault, dret, outputs, client, faults,
          save_output, file_path, pc, result, pdf_file_path, file_chunks, j,
          all_extracted_text, extraction_results, exc, ops, file_paths, bi, results, bpc,
          rpc, request, upload_info, scheduled, response, cpath, cconv, ccalls, saves, xcalls, spc, per_chunk, start_page, offset,
          chunk_num, chunk_paths>>

\* ------------------------------------------------------------------ helpers
Min(a, b) == IF a <= b THEN a ELSE b
Max(a, b) == IF a >= b THEN a ELSE b

RECURSIVE SumSizes(_)
SumSizes(pages) ==
    IF pages = << >> THEN 0 ELSE Head(pages).size + SumSizes(Tail(pages))

RECURSIVE SeqsUpTo(_, _)
\* all sequences over S of length 0..n
SeqsUpTo(S, n) ==
    IF n = 0 THEN { << >> }
    ELSE LET shorter == SeqsUpTo(S, n - 1)
         IN  shorter \cup { Append(s, x) : s \in { t \in shorter : Len(t) = n - 1 }, x \in S }

\* ------------------------------------------------------------------ files
PathOf(stem, ext) == [uid |-> 0, stem |-> stem, conv |-> 0, chunk |-> 0, ext |-> ext]

\* os.path.getsize
getsize(c) == IF c.pdf THEN c.base + SumSizes(c.pages) ELSE Len(c.data)

PdfContent(base, pages) == [pdf |-> TRUE, base |-> base, pages |-> pages, data |-> << >>]
RawContent(data) == [pdf |-> FALSE, base |-> 0, pages |-> << >>, data |-> data]

\* the pages of an uploaded PDF whose i-th page has sizes[i] bytes
Pages(sizes) == [i \in 1..Len(sizes) |-> [id |-> i, size |-> sizes[i]]]

\* f with path p (over)written with content c
WriteFile(f, p, c) == [q \in (DOMAIN f) \cup {p} |-> IF q = p THEN c ELSE f[q]]

\* str.lower() on a file extension
Lower(ext) == IF ext = ".PDF" THEN ".pdf" ELSE ext

\* the chunk path f"{base_name}_chunk_{chunk_num}{ext}"
ChunkPath(path, num, ext) == [path EXCEPT !.chunk = num, !.ext = ext]

\* ------------------------------------------------------------------ divider
\* The failure the environment injects into the chunk writes of one division,
\* [chunk, left].  chunk = 0: none.  chunk = k > 0: saving the k-th chunk
\* raises; left = "open": open() raised and no file was created; "empty": the
\* write raised after the open and the file is empty; "partial": the write
\* raised later and the file holds the chunk without its last byte.
NoFault == [chunk |-> 0, left |-> "open"]
DivFaults == {NoFault} \cup [chunk : 1..MaxFault, left : {"open", "empty", "partial"}]

\* the first n bytes of content c; PdfReader does not open the beginning of a PDF
Truncated(c, n) ==
    RawContent(IF c.pdf THEN [i \in 1..n |-> 1] ELSE SubSeq(c.data, 1, n))

\* with open(p, 'wb') as f: <write c> when the write raises as fault says
FailedWrite(f, p, c, fault) ==
    CASE fault.left = "open" -> f
      [] fault.left = "empty" -> WriteFile(f, p, Truncated(c, 0))
      [] OTHER -> WriteFile(f, p, Truncated(c, getsize(c) - 1))

\* One run of the while loop of _divide_pdf_by_pages from start_page = start,
\* chunk_num = num, with chunk_paths = acc already written into f; the except
\* clause of lines 111-114 returns [file_path] and removes nothing.
RECURSIVE PdfLoop(_, _, _, _, _, _, _)
PdfLoop(f, path, ppc, start, num, acc, fault) ==
    LET pages == f[path].pages
        total_pages == Len(pages)
        end_page == Min(start + ppc, total_pages)
        chunk_path == ChunkPath(path, num, ".pdf")
        written == PdfContent(0, SubSeq(pages, start + 1, end_page))
    IN  IF ~(start < total_pages) THEN [ret |-> acc, fs |-> f]
        ELSE IF num = fault.chunk
        THEN [ret |-> <<path>>, fs |-> FailedWrite(f, chunk_path, written, fault)]
        ELSE PdfLoop(WriteFile(f, chunk_path, written), path, ppc,
                     end_page, num + 1, Append(acc, chunk_path), fault)

\* mutant: the first chunk starts at the second page
DividePdfSkipsFirstPage(f, path, pages_per_chunk, fault) ==
    PdfLoop(f, path, pages_per_chunk, 1, 1, << >>, fault)

_divide_pdf_by_pages(f, path, pages_per_chunk, fault) ==
    PdfLoop(f, path, pages_per_chunk, 0, 1, << >>, fault)

\* The while loop of _divide_large_file with the read position at pos; the
\* except clause of lines 145-148 returns [file_path] and removes nothing.
RECURSIVE RawLoop(_, _, _, _, _, _)
RawLoop(f, path, pos, num, acc, fault) ==
    LET data == f[path].data
        chunk_data == SubSeq(data, pos + 1, Min(pos + maxBytes, Len(data)))
        chunk_path == ChunkPath(path, num, path.ext)
    IN  IF chunk_data = << >> THEN [ret |-> acc, fs |-> f]
        ELSE IF num = fault.chunk
        THEN [ret |-> <<path>>,
              fs |-> FailedWrite(f, chunk_path, RawContent(chunk_data), fault)]
        ELSE RawLoop(WriteFile(f, chunk_path, RawContent(chunk_data)), path,
                     pos + Len(chunk_data), num + 1, Append(acc, chunk_path), fault)

\* mutant: the first window starts at the second byte
DivideLargeSkipsFirstByte(f, path, fault) == RawLoop(f, path, 1, 1, << >>, fault)

_divide_large_file(f, path, fault) == RawLoop(f, path, 0, 1, << >>, fault)

\* mutant: the limits are compared with < instead of <=
CheckPdfStrictLimits(f, path, fault) ==
    LET c == f[path]
        file_size == getsize(c)
    IN  IF c.pdf
        THEN LET total_pages == Len(c.pages)
             IN  IF file_size < maxBytes /\ total_pages < maxPages
                 THEN [ret |-> <<path>>, fs |-> f]
                 ELSE LET pages_per_chunk ==
                              IF total_pages > maxPages THEN maxPages
                              ELSE Max(1, (maxPages * maxBytes) \div file_size)
                      IN  _divide_pdf_by_pages(f, path, pages_per_chunk, fault)
        ELSE IF file_size < maxBytes THEN [ret |-> <<path>>, fs |-> f]
             ELSE _divide_large_file(f, path, fault)

\* mutant: a PDF that cannot be read is returned as it is, whatever its size
CheckPdfUnreadableIdentity(f, path, fault) ==
    LET c == f[path]
        file_size == getsize(c)
    IN  IF c.pdf
        THEN LET total_pages == Len(c.pages)
             IN  IF file_size <= maxBytes /\ total_pages <= maxPages
                 THEN [ret |-> <<path>>, fs |-> f]
                 ELSE LET pages_per_chunk ==
                              IF total_pages > maxPages THEN maxPages
                              ELSE Max(1, (maxPages * maxBytes) \div file_size)
                      IN  _divide_pdf_by_pages(f, path, pages_per_chunk, fault)
        ELSE [ret |-> <<path>>, fs |-> f]

_check_and_divide_pdf(f, path, fault) ==
    LET c == f[path]
        file_size == getsize(c)
    IN  IF c.pdf
        THEN LET total_pages == Len(c.pages)
             IN  IF file_size <= maxBytes /\ total_pages <= maxPages
                 THEN [ret |-> <<path>>, fs |-> f]
                 ELSE LET pages_per_chunk ==
                              IF total_pages > maxPages THEN maxPages
                              ELSE Max(1, (maxPages * maxBytes) \div file_size)
                      IN  _divide_pdf_by_pages(f, path, pages_per_chunk, fault)
        ELSE \* PdfReader raised: treat as a regular file
             IF file_size <= maxBytes THEN [ret |-> <<path>>, fs |-> f]
             ELSE _divide_large_file(f, path, fault)

check_and_divide_file(f, path, fault) ==
    LET file_size == getsize(f[path])
    IN  IF Lower(path.ext) = ".pdf" THEN _check_and_divide_pdf(f, path, fault)
        ELSE IF file_size <= maxBytes THEN [ret |-> <<path>>, fs |-> f]
        ELSE _divide_large_file(f, path, fault)

\* the failures a division of path can meet: none, or one at a chunk that the
\* division without failure writes
MetFaults(f, path) ==
    LET clean == check_and_divide_file(f, path, NoFault)
    IN  { x \in DivFaults :
            \/ x = NoFault
            \/ /\ x.chunk > 0
               /\ clean.ret # <<path>> /\ x.chunk <= Len(clean.ret) }

\* divide.py 179-187: every listed chunk file that is not the original and exists
\* is removed; stuck: the files whose os.remove raises, which is caught
cleanup_chunks(f, original_file, chunk_files, stuck) ==
    LET removed == { chunk_files[k] : k \in 1..Len(chunk_files) } \ ({original_file} \cup stuck)
    IN  [q \in (DOMAIN f) \ removed |-> f[q]]

\* ------------------------------------------------------------------ texts
\* A text is a sequence of tokens [k, n]; kinds "sp" and "nl" are whitespace.
Tok(k, n) == [k |-> k, n |-> n]
NL == <<Tok("nl", 0)>>
IsSpace(t) == t.k \in {"sp", "nl"}
\* str.strip() leaves nothing
Blank(text) == \A i \in 1..Len(text) : IsSpace(text[i])

CHUNK_SEPARATOR == <<Tok("nl", 0), Tok("nl", 0), Tok("chunk_separator", 0), Tok("nl", 0), Tok("nl", 0)>>
NO_TEXT_CHUNK == <<Tok("No text could be extracted from this chunk.", 0)>>
NO_TEXT == <<Tok("No text could be extracted.", 0)>>
NO_TEXT_DOCUMENT == <<Tok("No text could be extracted from the document.", 0)>>
EMPTY_TEXT_FILE == <<Tok("The text file appears to be empty or contains no readable content.", 0)>>

\* sep.join(texts)
RECURSIVE Join(_, _)
Join(sep, texts) ==
    IF texts = << >> THEN << >>
    ELSE IF Len(texts) = 1 THEN texts[1]
    ELSE texts[1] \o sep \o Join(sep, Tail(texts))

\* dict.get(key, default) on a record used as a dict
Get(m, key, default) == IF key \in DOMAIN m THEN m[key] ELSE default

\* Optional values: None is << >>, a value x is <<x>>
None == << >>
Some(x) == <<x>>

\* ------------------------------------------------------------------ extraction adapter
\* The remote service's answer: [err |-> TRUE] when the call raises, else a
\* document [err |-> FALSE, text, chunks, blocks, pages]: text is document.text,
\* chunks the contents of document.chunked_document.chunks, blocks the layout
\* blocks of document.document_layout, each None (no text_block) or Some(its
\* text), pages the length of document.pages.
RemoteError == [err |-> TRUE]
Document(text, chunks, blocks, pages) ==
    [err |-> FALSE, text |-> text, chunks |-> chunks, blocks |-> blocks, pages |-> pages]

RECURSIVE ConcatLines(_)
\* for each piece: acc += piece + "\n"
ConcatLines(pieces) ==
    IF pieces = << >> THEN << >> ELSE Head(pieces) \o NL \o ConcatLines(Tail(pieces))

RECURSIVE ConcatBlocks(_)
\* for each block that has a text_block: acc += block.text_block.text + "\n"
ConcatBlocks(blocks) ==
    IF blocks = << >> THEN << >>
    ELSE (IF Head(blocks) = None THEN << >> ELSE Head(blocks)[1] \o NL)
             \o ConcatBlocks(Tail(blocks))

\* mutant: the content chunks are preferred to the whole-document text
ExtractTextChunksFirst(document) ==
    LET chunk_text == ConcatLines(document.chunks)
        layout_text == ConcatBlocks(document.blocks)
    IN  IF document.chunks # << >> /\ ~Blank(chunk_text)
        THEN [text |-> chunk_text, method |-> "chunked_text"]
        ELSE IF document.text # << >> /\ ~Blank(document.text)
        THEN [text |-> document.text, method |-> "direct_text"]
        ELSE IF document.blocks # << >> /\ ~Blank(layout_text)
        THEN [text |-> layout_text, method |-> "layout_blocks"]
        ELSE [text |-> NO_TEXT_DOCUMENT, method |-> "none"]

_extract_text_from_document(document) ==
    LET chunk_text == ConcatLines(document.chunks)
        layout_text == ConcatBlocks(document.blocks)
    IN  IF document.text # << >> /\ ~Blank(document.text)
        THEN [text |-> document.text, method |-> "direct_text"]
        ELSE IF document.chunks # << >> /\ ~Blank(chunk_text)
        THEN [text |-> chunk_text, method |-> "chunked_text"]
        ELSE IF document.blocks # << >> /\ ~Blank(layout_text)
        THEN [text |-> layout_text, method |-> "layout_blocks"]
        ELSE [text |-> NO_TEXT_DOCUMENT, method |-> "none"]

\* mimetypes.guess_type on the extensions of this model, with the standard
\* table: None for an extension the table does not know
guess_type(path) ==
    CASE Lower(path.ext) = ".pdf" -> Some("application/pdf")
      [] path.ext = ".txt"  -> Some("text/plain")
      [] path.ext = ".docx" ->
             Some("application/vnd.openxmlformats-officedocument.wordprocessingml.document")
      [] path.ext = ".png"  -> Some("image/png")
      [] path.ext = ".zip"  -> Some("application/zip")
      [] OTHER -> None

\* mime_map.get(extension, 'application/pdf')
mime_map(extension) ==
    CASE extension = ".pdf"  -> "application/pdf"
      [] extension \in {".jpg", ".jpeg"} -> "image/jpeg"
      [] extension = ".png"  -> "image/png"
      [] extension \in {".tiff", ".tif"} -> "image/tiff"
      [] extension = ".bmp"  -> "image/bmp"
      [] extension = ".gif"  -> "image/gif"
      [] extension = ".webp" -> "image/webp"
      [] extension = ".txt"  -> "text/plain"
      [] extension = ".docx" ->
             "application/vnd.openxmlformats-officedocument.wordprocessingml.document"
      [] extension = ".doc"  -> "application/msword"
      [] extension = ".pptx" ->
             "application/vnd.openxmlformats-officedocument.presentationml.presentation"
      [] extension = ".ppt"  -> "application/vnd.ms-powerpoint"
      [] extension = ".xlsx" ->
             "application/vnd.openxmlformats-officedocument.spreadsheetml.sheet"
      [] extension = ".xls"  -> "application/vnd.ms-excel"
      [] OTHER -> "application/pdf"

get_mime_type(path) ==
    LET mime_type == guess_type(path)
    IN  IF mime_type = None THEN mime_map(Lower(path.ext)) ELSE mime_type[1]

\* Byte values: 0 is a space, 1 an ASCII letter, b >= 2 the byte 0xE9 (a UTF-8
\* lead byte that no byte of this alphabet continues).
\* the characters of data read one byte each (ASCII, and latin-1 for 0xE9)
Chars(data) == [i \in 1..Len(data) |-> IF data[i] = 0 THEN Tok("sp", 0) ELSE Tok("char", data[i])]

\* data is valid UTF-8
Utf8(data) == \A i \in 1..Len(data) : data[i] < 2

\* The encodings ladder of lines 171-186: Some(text_content), or None when a
\* read raises something else than UnicodeDecodeError.  'utf-8' reads valid
\* UTF-8; on other data 'utf-16' raises UnicodeDecodeError (truncated data) for
\* an odd number of bytes, after which 'latin-1' reads every byte, and
\* UnicodeError (the stream does not start with a BOM) for an even number.
Decode(data) ==
    IF Utf8(data) THEN Some(Chars(data))
    ELSE IF Len(data) % 2 = 0 THEN None
    ELSE Some(Chars(data))

\* readable = FALSE: opening the file raises
_process_text_file_directly(f, path, readable) ==
    IF ~readable \/ path \notin DOMAIN f \/ Decode(f[path].data) = None
    THEN [success |-> FALSE, text |-> << >>, error |-> Some("Error reading text file"),
          metadata |-> [file_path |-> path]]
    ELSE LET read == Decode(f[path].data)[1]
             text_content == IF read = << >> \/ Blank(read) THEN EMPTY_TEXT_FILE ELSE read
         IN  [success |-> TRUE, text |-> text_content, error |-> None,
              metadata |-> [file_path |-> path, file_size |-> getsize(f[path]),
                            mime_type |-> "text/plain", extraction_method |-> "direct_read",
                            text_length |-> Len(text_content)]]

\* lines 45-90: the request is sent to the remote service when the file is not
\* plain text, the client is initialised and the file was read
SendsRequest(f, path, cl, readable) ==
    /\ ~(get_mime_type(path) = "text/plain" \/ path.ext = ".txt")
    /\ cl
    /\ readable /\ path \in DOMAIN f

\* lines 99-109: the metadata of a successful extraction; page_count is added
\* when document.pages is not empty
Metadata(f, path, mime_type, ex, document) ==
    LET metadata == [file_path |-> path, file_size |-> getsize(f[path]),
                     mime_type |-> mime_type, extraction_method |-> ex.method,
                     text_length |-> Len(ex.text)]
    IN  IF document.pages > 0 THEN [page_count |-> document.pages] @@ metadata
        ELSE metadata

\* mutant: the client is tested before the plain-text shortcut
ProcessDocumentClientFirst(f, path, cl, readable, resp) ==
    LET mime_type == get_mime_type(path)
    IN  IF ~cl
        THEN [success |-> FALSE, text |-> << >>,
              error |-> Some("Document AI client not initialized"), metadata |-> << >>]
        ELSE IF mime_type = "text/plain" \/ path.ext = ".txt"
        THEN _process_text_file_directly(f, path, readable)
        ELSE IF ~readable \/ path \notin DOMAIN f \/ resp.err
        THEN [success |-> FALSE, text |-> << >>, error |-> Some("Error processing document"),
              metadata |-> [file_path |-> path]]
        ELSE LET ex == _extract_text_from_document(resp)
             IN  [success |-> TRUE, text |-> ex.text, error |-> None,
                  metadata |-> Metadata(f, path, mime_type, ex, resp)]

\* mutant: the except clause of lines 118-125 reports the failure without a message
ProcessDocumentWithoutMessage(f, path, cl, readable, resp) ==
    LET mime_type == get_mime_type(path)
    IN  IF mime_type = "text/plain" \/ path.ext = ".txt"
        THEN _process_text_file_directly(f, path, readable)
        ELSE IF ~cl
        THEN [success |-> FALSE, text |-> << >>,
              error |-> Some("Document AI client not initialized"), metadata |-> << >>]
        ELSE IF ~readable \/ path \notin DOMAIN f \/ resp.err
        THEN [success |-> FALSE, text |-> << >>, error |-> None,
              metadata |-> [file_path |-> path]]
        ELSE LET ex == _extract_text_from_document(resp)
             IN  [success |-> TRUE, text |-> ex.text, error |-> None,
                  metadata |-> Metadata(f, path, mime_type, ex, resp)]

\* cl: the client is initialised; readable: the chunk file can be opened;
\* resp: the remote service's answer to the request
process_document(f, path, cl, readable, resp) ==
    LET mime_type == get_mime_type(path)
    IN  IF mime_type = "text/plain" \/ path.ext = ".txt"
        THEN _process_text_file_directly(f, path, readable)
        ELSE IF ~cl
        THEN [success |-> FALSE, text |-> << >>,
              error |-> Some("Document AI client not initialized"), metadata |-> << >>]
        ELSE IF ~readable \/ path \notin DOMAIN f \/ resp.err
        THEN [success |-> FALSE, text |-> << >>, error |-> Some("Error processing document"),
              metadata |-> [file_path |-> path]]
        ELSE LET ex == _extract_text_from_document(resp)
             IN  [success |-> TRUE, text |-> ex.text, error |-> None,
                  metadata |-> Metadata(f, path, mime_type, ex, resp)]

\* ------------------------------------------------------------------ format normalizer
\* f"{base_name}_converted.pdf"
ConvertedPath(path) == [path EXCEPT !.conv = @ + 1, !.ext = ".pdf"]

\* the archive backend's temp_txt = output_path + '.tmp.txt'
TempTxt(output_path) == [output_path EXCEPT !.ext = ".pdf.tmp.txt"]

\* the extensions dispatched to _convert_archive_to_pdf
IsArchive(path) == Lower(path.ext) \in {".zip", ".rar", ".7z"}

\* the listing the archive backend writes into temp_txt
ArchiveListing == RawContent(<<1>>)

\* os.remove
RemoveFile(f, p) == [q \in (DOMAIN f) \ {p} |-> f[q]]

\* The backend dispatch of lines 36-63 (office, text, image, archive, or the
\* LibreOffice / text / fallback chain), by what it did.  conv = [kind, doc]:
\*   "wrote":          a backend wrote the PDF doc to output_pdf_path; the
\*                     archive backend rewrote temp_txt before and removed it
\*                     afterwards (lines 334-335), so that a temp_txt left by
\*                     an earlier call is gone too
\*   "raised":         every backend tried raised (failure, timeout, missing
\*                     library, an archive that cannot be opened) and nothing
\*                     was written
\*   "raised_partial": a backend created the output file and then raised; in
\*                     the archive backend that is _convert_text_to_pdf, called
\*                     after temp_txt was written, so temp_txt stays
\*   "raised_temp":    the archive backend wrote temp_txt, _convert_text_to_pdf
\*                     raised without output, and lines 334-335 were not reached
\*   "raised_listing": the archive backend created temp_txt and the write of
\*                     line 329 raised: temp_txt stays, empty
\*   "raised_remove":  the archive backend wrote temp_txt and the PDF doc, and
\*                     os.remove(temp_txt) of line 335 raised: both files stay
\*   "silent":         a backend returned without raising and without output;
\*                     the archive backend removed temp_txt all the same
Backends(f, path, output_pdf_path, conv) ==
    LET temp_txt == TempTxt(output_pdf_path)
    IN  CASE conv.kind = "wrote" ->
                 [raised |-> FALSE,
                  fs |-> LET written == WriteFile(f, output_pdf_path, conv.doc)
                         IN  IF IsArchive(path) THEN RemoveFile(written, temp_txt)
                             ELSE written]
          [] conv.kind = "raised" -> [raised |-> TRUE, fs |-> f]
          [] conv.kind = "raised_partial" ->
                 [raised |-> TRUE,
                  fs |-> WriteFile(IF IsArchive(path) THEN WriteFile(f, temp_txt, ArchiveListing)
                                   ELSE f,
                                   output_pdf_path, RawContent(<< >>))]
          [] conv.kind = "raised_temp" ->
                 [raised |-> TRUE, fs |-> WriteFile(f, temp_txt, ArchiveListing)]
          [] conv.kind = "raised_listing" ->
                 [raised |-> TRUE, fs |-> WriteFile(f, temp_txt, RawContent(<< >>))]
          [] conv.kind = "raised_remove" ->
                 [raised |-> TRUE,
                  fs |-> WriteFile(WriteFile(f, temp_txt, ArchiveListing),
                                   output_pdf_path, conv.doc)]
          [] OTHER ->
                 [raised |-> FALSE,
                  fs |-> IF IsArchive(path) THEN RemoveFile(f, temp_txt) ELSE f]

\* mutant: without the except clause of lines 72-75 a backend's exception leaves
ConvertToPdfWithoutExcept(f, path, conv) ==
    LET output_pdf_path == ConvertedPath(path)
        b == Backends(f, path, output_pdf_path, conv)
    IN  IF Lower(path.ext) = ".pdf" THEN [ret |-> path, fs |-> f, raised |-> FALSE]
        ELSE IF b.raised THEN [ret |-> path, fs |-> b.fs, raised |-> TRUE]
        ELSE IF output_pdf_path \in DOMAIN b.fs
        THEN [ret |-> output_pdf_path, fs |-> b.fs, raised |-> FALSE]
        ELSE [ret |-> path, fs |-> b.fs, raised |-> FALSE]

\* mutant: the already-PDF test of lines 23-25 is missing
ConvertToPdfAlwaysConverts(f, path, conv) ==
    LET output_pdf_path == ConvertedPath(path)
        b == Backends(f, path, output_pdf_path, conv)
    IN  IF b.raised THEN [ret |-> path, fs |-> b.fs, raised |-> FALSE]
        ELSE IF output_pdf_path \in DOMAIN b.fs
        THEN [ret |-> output_pdf_path, fs |-> b.fs, raised |-> FALSE]
        ELSE [ret |-> path, fs |-> b.fs, raised |-> FALSE]

\* ret: the returned path; raised: an exception left convert_to_pdf
convert_to_pdf(f, path, conv) ==
    LET output_pdf_path == ConvertedPath(path)
        b == Backends(f, path, output_pdf_path, conv)
    IN  IF Lower(path.ext) = ".pdf" THEN [ret |-> path, fs |-> f, raised |-> FALSE]
        ELSE IF b.raised THEN [ret |-> path, fs |-> b.fs, raised |-> FALSE]
        ELSE IF output_pdf_path \in DOMAIN b.fs
        THEN [ret |-> output_pdf_path, fs |-> b.fs, raised |-> FALSE]
        ELSE [ret |-> path, fs |-> b.fs, raised |-> FALSE]

\* ------------------------------------------------------------------ record store
\* DatabaseManager builds a dict, prints and returns: its calls do not fail.
\* the id is "doc_" + the current time to the second
save_processing_record(file_info) == "doc_timestamp"

update_record_status(record_id, status) == TRUE

\* ------------------------------------------------------------------ output files
\* os.path.basename: the model's paths carry no directory
basename(path) == path
\* os.path.splitext(os.path.basename(path))[0]
StemOf(path) == [uid |-> path.uid, stem |-> path.stem, conv |-> path.conv, chunk |-> path.chunk]
\* "<stem>_<kind>.txt" (n = 0) or "<stem>_<kind>_<n>.txt"
OutName(stem, kind, n) == [stem |-> stem, kind |-> kind, n |-> n]

\* mutant: the first name is taken whether or not it exists
FreeNameOverwrites(outs, original_output_file, output_file, counter) == output_file

\* the while loop of _save_extracted_text
RECURSIVE FreeName(_, _, _, _)
FreeName(outs, original_output_file, output_file, counter) ==
    IF output_file \notin DOMAIN outs THEN output_file
    ELSE FreeName(outs, original_output_file,
                  [original_output_file EXCEPT !.n = counter], counter + 1)

\* How saving a file in OUTPUT_DIR goes: "ok"; "open": open() raises and no
\* file is created; "empty": the file is created and the first write raises;
\* "partial": a later write raises and the file holds what was written before.
\* The content of a file is a record of what was written, << >> when empty.
WriteKinds == {"ok", "open", "empty", "partial"}

\* raised: the exception of a failed open or write leaves the function
_save_extracted_text(outs, original_file_path, text, metadata, wr) ==
    LET first == OutName(StemOf(original_file_path), "extracted", 0)
        output_file == FreeName(outs, first, first, 1)
        header == [source |-> original_file_path, characters |-> Len(text),
                   chunks_processed |-> Get(metadata, "chunks_processed", 1)]
        written == [text |-> text] @@ header
    IN  [ret |-> output_file,
         raised |-> wr # "ok",
         outputs |-> CASE wr = "ok" -> WriteFile(outs, output_file, written)
                       [] wr = "open" -> outs
                       [] wr = "empty" -> WriteFile(outs, output_file, << >>)
                       [] OTHER -> WriteFile(outs, output_file, header)]

\* mutant: without the try of lines 289-298 a failed write leaves the function
SaveErrorInfoWithoutTry(outs, path, error, wr) ==
    LET error_file == OutName(StemOf(path), "extraction_error", 0)
    IN  [ret |-> IF wr = "ok" THEN Some(error_file) ELSE None,
         raised |-> wr # "ok",
         outputs |-> CASE wr = "ok" -> WriteFile(outs, error_file,
                                                  [source |-> path, error |-> error])
                       [] wr = "open" -> outs
                       [] wr = "empty" -> WriteFile(outs, error_file, << >>)
                       [] OTHER -> WriteFile(outs, error_file, [source |-> path])]

\* the except clause of lines 296-298 catches a failed open or write and None
\* is returned; the file a failed write created stays
_save_error_info(outs, path, error, wr) ==
    LET error_file == OutName(StemOf(path), "extraction_error", 0)
    IN  [ret |-> IF wr = "ok" THEN Some(error_file) ELSE None,
         raised |-> FALSE,
         outputs |-> CASE wr = "ok" -> WriteFile(outs, error_file,
                                                  [source |-> path, error |-> error])
                       [] wr = "open" -> outs
                       [] wr = "empty" -> WriteFile(outs, error_file, << >>)
                       [] OTHER -> WriteFile(outs, error_file, [source |-> path])]

\* ------------------------------------------------------------------ response schema
\* The pydantic models of document_schema.py as predicates on dicts: the
\* fields without a default must be present.
ProcessingStep(d) == {"step", "success", "output", "details"} \subseteq DOMAIN d

ExtractionMetadata(d) ==
    {"chunks_processed", "extraction_methods", "total_file_size"} \subseteq DOMAIN d

DocumentProcessingResult(d) ==
    /\ {"success", "file_path", "filename", "extracted_text", "text_length",
        "processing_steps", "metadata"} \subseteq DOMAIN d
    /\ \A i \in 1..Len(d.processing_steps) : ProcessingStep(d.processing_steps[i])
    /\ ExtractionMetadata(d.metadata)

\* ------------------------------------------------------------------ single-file orchestrator
NoPath == PathOf("", "")
Msg(prefix, cause) == [prefix |-> prefix, cause |-> cause]
Op(name, path) == [op |-> name, path |-> path]

\* mutant: the error message is dropped from the error result
CreateErrorResultWithoutError(path, error_message) ==
    [success |-> FALSE, file_path |-> path, filename |-> basename(path),
     extracted_text |-> << >>, text_length |-> 0, output_file |-> None,
     processing_steps |-> << >>, metadata |-> << >>,
     error |-> None, record_id |-> None]

_create_error_result(path, error_message) ==
    [success |-> FALSE, file_path |-> path, filename |-> basename(path),
     extracted_text |-> << >>, text_length |-> 0, output_file |-> None,
     processing_steps |-> << >>, metadata |-> << >>,
     error |-> Some(error_message), record_id |-> None]

\* the result structure of lines 35-46
InitialResult(path) ==
    [success |-> FALSE, file_path |-> path, filename |-> basename(path),
     extracted_text |-> << >>, text_length |-> 0, output_file |-> None,
     processing_steps |-> << >>, metadata |-> << >>,
     error |-> None, record_id |-> None]

\* details: "Converted to: <name>", "Created <n> chunk(s)", "Processed <n> chunks"
Step(name, output) ==
    [step |-> name, success |-> TRUE, output |-> output,
     details |-> IF name = "conversion"
                 THEN [text |-> "Converted to", name |-> basename(output), n |-> 0]
                 ELSE [text |-> name, name |-> NoPath, n |-> Len(output)]]

\* the failures the environment may choose at a fallible call
FaultChoice == IF faults > 0 THEN BOOLEAN ELSE {FALSE}
Spend(bad) == faults' = IF bad THEN faults - 1 ELSE faults
\* how the environment may let a write into OUTPUT_DIR go
WriteChoice == IF faults > 0 THEN WriteKinds ELSE {"ok"}

\* what the remote service may answer for a chunk: an error, or the document
\* whose text is the chunk's pages (or decoded bytes) in order
OcrText(c) ==
    IF c.pdf THEN [i \in 1..Len(c.pages) |-> Tok("page", c.pages[i].id)] ELSE Chars(c.data)
Responses(c) ==
    { RemoteError, Document(OcrText(c), << >>, << >>, IF c.pdf THEN Len(c.pages) ELSE 1) }

\* the PDF a conversion backend produces
ConvertedDoc == PdfContent(0, Pages(<<1, 1>>))

\* mutant: a missing file also gets an error file written, as other failures do
PSF_MissingSavesError ==
    /\ pc = "call"
    /\ file_path \notin DOMAIN fs
    /\ result' = _create_error_result(file_path, Msg("File does not exist", ""))
    /\ pc' = "returned"
    /\ outputs' = IF save_output
                  THEN _save_error_info(outputs, file_path, "File does not exist", "ok").outputs
                  ELSE outputs
    /\ UNCHANGED <<cfgvars, hvars, fs, dvars, client, faults, save_output, file_path,
                   pdf_file_path, file_chunks, j, all_extracted_text, extraction_results,
                   exc, ops, bvars>>

\* lines 31-32: the file does not exist
PSF_Missing ==
    /\ pc = "call"
    /\ file_path \notin DOMAIN fs
    /\ result' = _create_error_result(file_path, Msg("File does not exist", ""))
    /\ pc' = "returned"
    /\ UNCHANGED <<cfgvars, hvars, fs, dvars, outputs, client, faults, save_output, file_path,
                   pdf_file_path, file_chunks, j, all_extracted_text, extraction_results,
                   exc, ops, bvars>>

\* lines 34-46
PSF_Start ==
    /\ pc = "call"
    /\ file_path \in DOMAIN fs
    /\ result' = InitialResult(file_path)
    /\ pc' = "record"
    /\ UNCHANGED <<cfgvars, hvars, fs, dvars, outputs, client, faults, save_output, file_path,
                   pdf_file_path, file_chunks, j, all_extracted_text, extraction_results,
                   exc, ops, bvars>>

\* lines 49-55
PSF_SaveRecord ==
    /\ pc = "record"
    /\ ops' = Append(ops, Op("record_create", file_path))
    /\ result' = [result EXCEPT !.record_id =
                     Some(save_processing_record(
                         [filename |-> result.filename,
                          file_size |-> getsize(fs[file_path]),
                          status |-> "processing"]))]
    /\ pc' = "convert"
    /\ UNCHANGED <<cfgvars, hvars, fs, dvars, outputs, client, faults, save_output, file_path,
                   pdf_file_path, file_chunks, j, all_extracted_text, extraction_results,
                   exc, bvars>>

\* what the backends may do with path: temp_txt is written for archives only
ConvKindsOf(path) ==
    {"wrote", "raised", "raised_partial", "silent"}
        \cup (IF IsArchive(path) THEN {"raised_temp", "raised_listing", "raised_remove"}
              ELSE {})

\* what the conversion backends may do in a run that may still fail
ConvKinds == IF faults > 0 THEN ConvKindsOf(file_path) ELSE {"wrote"}

\* lines 57-66
PSF_Convert ==
    /\ pc = "convert"
    /\ \E kind \in ConvKinds :
          LET conv == [kind |-> kind, doc |-> ConvertedDoc]
              r == convert_to_pdf(fs, file_path, conv)
          IN  /\ Spend(kind # "wrote" /\ Lower(file_path.ext) # ".pdf")
              /\ fs' = r.fs
              /\ IF r.raised
                 THEN /\ exc' = "conversion failed"
                      /\ pc' = "except"
                      /\ UNCHANGED <<pdf_file_path, result>>
                 ELSE /\ pdf_file_path' = r.ret
                      /\ result' = [result EXCEPT !.processing_steps =
                                       Append(@, Step("conversion", r.ret))]
                      /\ pc' = "divide"
                      /\ UNCHANGED exc
    /\ ops' = Append(ops, Op("convert", file_path))
    /\ UNCHANGED <<cfgvars, hvars, dvars, outputs, client, save_output, file_path,
                   file_chunks, j, all_extracted_text, extraction_results, bvars>>

\* lines 68-82
PSF_Divide ==
    /\ pc = "divide"
    /\ \E fault \in MetFaults(fs, pdf_file_path) :
          LET r == check_and_divide_file(fs, pdf_file_path, fault)
          IN  /\ fault # NoFault => faults > 0
              /\ Spend(fault # NoFault)
              /\ fs' = r.fs
              /\ file_chunks' = r.ret
              /\ result' = [result EXCEPT !.processing_steps =
                               Append(@, Step("division", r.ret))]
              /\ pc' = IF r.ret = << >> THEN "merge" ELSE "extract"
    /\ ops' = Append(ops, Op("divide", pdf_file_path))
    /\ j' = 0
    /\ all_extracted_text' = << >>
    /\ extraction_results' = << >>
    /\ UNCHANGED <<cfgvars, hvars, dvars, outputs, client, save_output, file_path,
                   pdf_file_path, exc, bvars>>

\* the text kept for one chunk's extraction result (lines 90-100)
ChunkText(chunk_result) ==
    IF chunk_result.success /\ chunk_result.text # << >>
    THEN chunk_result.text
    ELSE NO_TEXT_CHUNK

\* mutant: a failed chunk contributes nothing to the merged text
AppendTextSkipsFailed(texts, chunk_result) ==
    IF chunk_result.success /\ chunk_result.text # << >>
    THEN Append(texts, chunk_result.text)
    ELSE texts

\* all_extracted_text.append(...) of lines 93 and 100
AppendText(texts, chunk_result) == Append(texts, ChunkText(chunk_result))

\* mutant: a chunk whose extraction failed makes the whole file fail
PSF_ExtractFailureIsFatal ==
    /\ pc = "extract"
    /\ LET chunk_path == file_chunks[j + 1]
       IN  \E bad \in FaultChoice :
           \E resp \in IF chunk_path \in DOMAIN fs THEN Responses(fs[chunk_path])
                       ELSE {RemoteError} :
              LET chunk_result == process_document(fs, chunk_path, client, TRUE, resp)
              IN  /\ bad = resp.err
                  /\ Spend(bad)
                  /\ extraction_results' = Append(extraction_results, chunk_result)
                  /\ all_extracted_text' = AppendText(all_extracted_text, chunk_result)
                  /\ ops' = Append(ops, Op("extract", chunk_path))
                  /\ IF chunk_result.success
                     THEN pc' = "chunk_cleanup" /\ UNCHANGED exc
                     ELSE pc' = "except" /\ exc' = "chunk extraction failed"
    /\ UNCHANGED <<cfgvars, hvars, fs, dvars, outputs, client, save_output, file_path, result,
                   pdf_file_path, file_chunks, j, bvars>>

\* lines 84-100: one chunk's extraction
PSF_Extract ==
    /\ pc = "extract"
    /\ LET chunk_path == file_chunks[j + 1]
       IN  \E bad \in FaultChoice :
           \E resp \in IF chunk_path \in DOMAIN fs THEN Responses(fs[chunk_path])
                       ELSE {RemoteError} :
              LET chunk_result == process_document(fs, chunk_path, client, TRUE, resp)
              IN  /\ bad = resp.err
                  /\ Spend(bad)
                  /\ extraction_results' = Append(extraction_results, chunk_result)
                  /\ all_extracted_text' = AppendText(all_extracted_text, chunk_result)
                  /\ ops' = Append(ops, Op("extract", chunk_path))
    /\ pc' = "chunk_cleanup"
    /\ UNCHANGED <<cfgvars, hvars, fs, dvars, outputs, client, save_output, file_path, result,
                   pdf_file_path, file_chunks, j, exc, bvars>>

\* mutant: the chunk's temporary file is removed only when its extraction succeeded
PSF_ChunkCleanupOnSuccess ==
    /\ pc = "chunk_cleanup"
    /\ LET chunk_path == file_chunks[j + 1]
       IN  IF /\ chunk_path # pdf_file_path /\ chunk_path \in DOMAIN fs
              /\ extraction_results[j + 1].success
           THEN \E bad \in FaultChoice :
                   /\ Spend(bad)
                   /\ fs' = IF bad THEN fs ELSE RemoveFile(fs, chunk_path)
                   /\ ops' = Append(ops, Op(IF bad THEN "remove_raised" ELSE "remove",
                                            chunk_path))
           ELSE UNCHANGED <<fs, faults, ops>>
    /\ j' = j + 1
    /\ pc' = IF j + 1 < Len(file_chunks) THEN "extract" ELSE "merge"
    /\ UNCHANGED <<cfgvars, hvars, dvars, outputs, client, save_output, file_path, result,
                   pdf_file_path, file_chunks, all_extracted_text, extraction_results,
                   exc, bvars>>

\* lines 102-108: the chunk's temporary file is removed; a failing os.remove is ignored
PSF_ChunkCleanup ==
    /\ pc = "chunk_cleanup"
    /\ LET chunk_path == file_chunks[j + 1]
       IN  IF chunk_path # pdf_file_path /\ chunk_path \in DOMAIN fs
           THEN \E bad \in FaultChoice :
                   /\ Spend(bad)
                   /\ fs' = IF bad THEN fs ELSE RemoveFile(fs, chunk_path)
                   /\ ops' = Append(ops, Op(IF bad THEN "remove_raised" ELSE "remove",
                                            chunk_path))
           ELSE UNCHANGED <<fs, faults, ops>>
    /\ j' = j + 1
    /\ pc' = IF j + 1 < Len(file_chunks) THEN "extract" ELSE "merge"
    /\ UNCHANGED <<cfgvars, hvars, dvars, outputs, client, save_output, file_path, result,
                   pdf_file_path, file_chunks, all_extracted_text, extraction_results,
                   exc, bvars>>

\* r.get('metadata', {}).get('extraction_method') for each extraction result
ExtractionMethods(rs) ==
    [k \in 1..Len(rs) |->
        LET m == Get(rs[k], "metadata", << >>)
        IN  IF "extraction_method" \in DOMAIN m THEN Some(m.extraction_method) ELSE None]

RECURSIVE TotalFileSize(_)
TotalFileSize(rs) ==
    IF rs = << >> THEN 0
    ELSE Get(Get(Head(rs), "metadata", << >>), "file_size", 0) + TotalFileSize(Tail(rs))

\* mutant: the chunk texts are concatenated with nothing between them
MergeTextWithoutSeparator(chunks, texts) ==
    IF Len(chunks) > 1 THEN Join(<< >>, texts)
    ELSE IF texts # << >> THEN texts[1] ELSE NO_TEXT

\* lines 119-122
MergeText(chunks, texts) ==
    IF Len(chunks) > 1 THEN Join(CHUNK_SEPARATOR, texts)
    ELSE IF texts # << >> THEN texts[1] ELSE NO_TEXT

\* lines 110-132
PSF_Merge ==
    /\ pc = "merge"
    /\ LET final_text == MergeText(file_chunks, all_extracted_text)
       IN  result' = [result EXCEPT
               !.processing_steps = Append(@, Step("extraction", extraction_results)),
               !.extracted_text = final_text,
               !.text_length = Len(final_text),
               !.metadata = [chunks_processed |-> Len(file_chunks),
                             extraction_methods |-> ExtractionMethods(extraction_results),
                             total_file_size |-> TotalFileSize(extraction_results)]]
    /\ pc' = IF save_output THEN "save" ELSE "cleanup_pdf"
    /\ UNCHANGED <<cfgvars, hvars, fs, dvars, outputs, client, faults, save_output, file_path,
                   pdf_file_path, file_chunks, j, all_extracted_text, extraction_results,
                   exc, ops, bvars>>

\* lines 134-139; a failed open or write goes to the except handler, and the
\* file a failed write created stays in OUTPUT_DIR
PSF_Save ==
    /\ pc = "save"
    /\ \E wr \in WriteChoice :
          LET r == _save_extracted_text(outputs, file_path, result.extracted_text,
                                        result.metadata, wr)
          IN  /\ Spend(wr # "ok")
              /\ ops' = Append(ops, Op("save_output", file_path))
              /\ outputs' = r.outputs
              /\ IF r.raised
                 THEN /\ exc' = "cannot write output file"
                      /\ pc' = "except"
                      /\ UNCHANGED result
                 ELSE /\ result' = [result EXCEPT !.output_file = Some(r.ret)]
                      /\ pc' = "cleanup_pdf"
                      /\ UNCHANGED exc
    /\ UNCHANGED <<cfgvars, hvars, fs, dvars, client, save_output, file_path,
                   pdf_file_path, file_chunks, j, all_extracted_text, extraction_results,
                   bvars>>

\* lines 141-149
PSF_CleanupPdf ==
    /\ pc = "cleanup_pdf"
    /\ IF pdf_file_path # file_path /\ pdf_file_path \in DOMAIN fs
       THEN \E bad \in FaultChoice :
               /\ Spend(bad)
               /\ fs' = IF bad THEN fs ELSE RemoveFile(fs, pdf_file_path)
               /\ ops' = Append(ops, Op(IF bad THEN "remove_raised" ELSE "remove",
                                        pdf_file_path))
       ELSE UNCHANGED <<fs, faults, ops>>
    /\ result' = [result EXCEPT !.success = TRUE]
    /\ pc' = "complete"
    /\ UNCHANGED <<cfgvars, hvars, dvars, outputs, client, save_output, file_path,
                   pdf_file_path, file_chunks, j, all_extracted_text, extraction_results,
                   exc, bvars>>

\* lines 151-156
PSF_Complete ==
    /\ pc = "complete"
    /\ IF result.record_id # None
       THEN /\ update_record_status(result.record_id[1], "completed")
            /\ ops' = Append(ops, Op("record_update_completed", file_path))
       ELSE UNCHANGED ops
    /\ pc' = "returned"
    /\ UNCHANGED <<cfgvars, hvars, fs, dvars, outputs, client, faults, save_output, file_path,
                   result, pdf_file_path, file_chunks, j, all_extracted_text,
                   extraction_results, exc, bvars>>

\* mutant: the handler leaves the record in the status 'processing'
PSF_ExceptWithoutUpdate ==
    /\ pc = "except"
    /\ \E wr \in IF save_output THEN WriteChoice ELSE {"ok"} :
          LET saved == _save_error_info(outputs, file_path, exc, wr)
          IN  /\ Spend(wr # "ok")
              /\ IF save_output
                 THEN /\ outputs' = saved.outputs
                      /\ ops' = Append(ops, Op(IF wr = "ok" THEN "save_error"
                                                ELSE "save_error_raised", file_path))
                      /\ pc' = IF saved.raised THEN "raised" ELSE "returned"
                 ELSE /\ pc' = "returned"
                      /\ UNCHANGED <<outputs, ops>>
    /\ result' = [result EXCEPT !.error = Some(Msg("Error processing", exc)),
                                !.success = FALSE]
    /\ UNCHANGED <<cfgvars, hvars, fs, dvars, client, save_output, file_path,
                   pdf_file_path, file_chunks, j, all_extracted_text, extraction_results,
                   exc, bvars>>

\* lines 158-173: the except handler: the result gets the error, the record the
\* status 'failed', and with save_output the error file is written.  pc
\* "raised": an exception left the handler and process_single_file with it
PSF_Except ==
    /\ pc = "except"
    /\ LET failed == [result EXCEPT !.error = Some(Msg("Error processing", exc)),
                                    !.success = FALSE]
           after_update ==
               IF failed.record_id # None
               THEN Append(ops, Op("record_update_failed", file_path))
               ELSE ops
       IN  \E wr \in IF save_output THEN WriteChoice ELSE {"ok"} :
              LET saved == _save_error_info(outputs, file_path, exc, wr)
              IN  /\ result' = failed
                  /\ failed.record_id # None =>
                         update_record_status(failed.record_id[1], "failed")
                  /\ Spend(wr # "ok")
                  /\ IF save_output
                     THEN /\ outputs' = saved.outputs
                          /\ ops' = Append(after_update,
                                           Op(IF wr = "ok" THEN "save_error"
                                              ELSE "save_error_raised", file_path))
                          /\ pc' = IF saved.raised THEN "raised" ELSE "returned"
                     ELSE /\ pc' = "returned"
                          /\ ops' = after_update
                          /\ UNCHANGED outputs
    /\ UNCHANGED <<cfgvars, hvars, fs, dvars, client, save_output, file_path,
                   pdf_file_path, file_chunks, j, all_extracted_text, extraction_results,
                   exc, bvars>>

process_single_file ==
    \/ PSF_Missing
    \/ PSF_Start
    \/ PSF_SaveRecord
    \/ PSF_Convert
    \/ PSF_Divide
    \/ PSF_Extract
    \/ PSF_ChunkCleanup
    \/ PSF_Merge
    \/ PSF_Save
    \/ PSF_CleanupPdf
    \/ PSF_Complete
    \/ PSF_Except

\* ------------------------------------------------------------------ batch orchestrator
\* lines 190-202
InitialResults(paths) ==
    [success |-> TRUE, total_files |-> Len(paths), successful_files |-> 0,
     failed_files |-> 0, individual_results |-> << >>, combined_text |-> << >>,
     processing_summary |-> [start_time |-> Some("start"), end_time |-> None,
                             duration |-> None]]

\* mutant: the newest result is put first
CollectPrepends(rs, i, file_result) ==
    LET appended == [rs EXCEPT !.individual_results = <<file_result>> \o @]
    IN  IF file_result.success
        THEN [appended EXCEPT !.successful_files = @ + 1]
        ELSE [appended EXCEPT !.failed_files = @ + 1]

\* lines 211-219: the bookkeeping for the i-th file's result
Collect(rs, i, file_result) ==
    LET appended == [rs EXCEPT !.individual_results = Append(@, file_result)]
    IN  IF file_result.success
        THEN [appended EXCEPT
                 !.successful_files = @ + 1,
                 !.combined_text =
                     IF file_result.extracted_text # << >>
                     THEN @ \o <<Tok("file_banner", i)>> \o file_result.extracted_text
                     ELSE @]
        ELSE [appended EXCEPT !.failed_files = @ + 1]

\* lines 224-226
Stamp(rs) ==
    [rs EXCEPT !.processing_summary.end_time = Some("end"),
               !.processing_summary.duration = Some("end - start")]

\* mutant: all-or-nothing, one failed file makes the batch unsuccessful
FinalizeAllOrNothing(rs) == [rs EXCEPT !.success = rs.failed_files = 0]

\* lines 228-229
Finalize(rs) ==
    IF rs.failed_files > 0
    THEN [rs EXCEPT !.success = rs.successful_files > 0]
    ELSE rs

\* the locals of a process_single_file call that is not running
IdleFile ==
    /\ file_path = NoPath
    /\ result = << >>
    /\ pdf_file_path = NoPath
    /\ file_chunks = << >>
    /\ j = 0
    /\ all_extracted_text = << >>
    /\ extraction_results = << >>
    /\ exc = ""
    /\ ops = << >>

\* lines 207-210: the loop takes the next path and calls process_single_file
PMF_Call ==
    /\ bpc = "loop" /\ pc = "idle"
    /\ bi < Len(file_paths)
    /\ bi' = bi + 1
    /\ file_path' = file_paths[bi + 1]
    /\ pc' = "call"
    /\ UNCHANGED <<cfgvars, hvars, fs, dvars, outputs, client, faults, save_output, result,
                   pdf_file_path, file_chunks, j, all_extracted_text, extraction_results,
                   exc, ops, file_paths, results, bpc>>

\* lines 210-221: process_single_file returned
PMF_Collect ==
    /\ bpc = "loop" /\ pc = "returned"
    /\ results' = Collect(results, bi, result)
    /\ pc' = "idle"
    /\ file_path' = NoPath /\ result' = << >> /\ pdf_file_path' = NoPath
    /\ file_chunks' = << >> /\ j' = 0 /\ all_extracted_text' = << >>
    /\ extraction_results' = << >> /\ exc' = "" /\ ops' = << >>
    /\ UNCHANGED <<cfgvars, hvars, fs, dvars, outputs, client, faults, save_output,
                   file_paths, bi, bpc>>

\* lines 223-234
PMF_Return ==
    /\ bpc = "loop" /\ pc = "idle"
    /\ bi = Len(file_paths)
    /\ results' = Finalize(Stamp(results))
    /\ bpc' = "returned"
    /\ UNCHANGED <<cfgvars, hvars, fs, dvars, outputs, client, faults, save_output, fvars,
                   file_paths, bi>>

process_multiple_files == PMF_Call \/ PMF_Collect \/ PMF_Return

\* ------------------------------------------------------------------ upload and cleanup routes
\* the files of a list of paths
Listed(paths) == { paths[k] : k \in 1..Len(paths) }

\* f without the files of gone
Without(f, gone) == [q \in (DOMAIN f) \ gone |-> f[q]]

\* document_router.py 227-257: each file is examined and removed in a try of
\* its own.  old_uploads / old_outputs: the files older than one hour / 24
\* hours whose os.remove does not raise; the others stay
cleanup_old_files(f, outs, old_uploads, old_outputs) ==
    [fs |-> Without(f, old_uploads), outputs |-> Without(outs, old_outputs)]

\* f"{upload_id}_{file.filename}": the k-th upload of a request gets a fresh
\* uuid4, here k
UploadPath(k, filename) == [PathOf(filename.stem, filename.ext) EXCEPT !.uid = k]

\* the files a request may carry
UploadFiles ==
    { [filename |-> [stem |-> "a", ext |-> ".pdf"], content |-> PdfContent(0, Pages(<<1>>))],
      [filename |-> [stem |-> "n", ext |-> ".txt"], content |-> RawContent(<<1>>)] }

\* lines 115-124: the except clause removes the uploads listed in file_paths
\* that still exist, each in a try of its own; stuck: the files whose
\* os.remove raises, which is caught
ExceptCleanup(f, paths, stuck) ==
    Without(f, { paths[k] : k \in 1..Len(paths) } \ stuck)

\* The handler of POST /process is a coroutine: it is suspended at each await
\* of lines 86-88 (aiofiles.open, file.read and f.write, the close of the
\* async with), and the event loop serves other requests meanwhile.  From the
\* close of the last upload to the return (lines 90-111) nothing is awaited.
\* cleanup_old_files is awaited too but never suspends.

\* lines 71-77: the request arrives with its files; cleanup_old_files runs
Route_Start ==
    /\ rpc = "request" /\ bpc = "none"
    /\ \E files \in { s \in SeqsUpTo(UploadFiles, MaxUploads) : s # << >> },
          old_uploads \in SUBSET DOMAIN fs, old_outputs \in SUBSET DOMAIN outputs :
          LET swept == cleanup_old_files(fs, outputs, old_uploads, old_outputs)
          IN  /\ fs' = swept.fs
              /\ outputs' = swept.outputs
              /\ request' = files
    /\ rpc' = "open"
    /\ UNCHANGED <<cfgvars, cpath, cconv, ccalls, saves, xcalls, svars, upload_info, scheduled,
                   response, dvars, client, faults, save_output, fvars, bvars>>

\* the upload being saved: the next file of the request and its path
UploadIndex == Len(file_paths) + 1
UploadTarget == UploadPath(UploadIndex, request[UploadIndex].filename)

\* lines 80-86: aiofiles.open(file_path, 'wb') creates the file, empty.
\* bad: it raises, and the except clause of lines 115-124 removes the uploads
\* saved so far, but for those whose os.remove raises, and raises HTTP 500
Route_Open ==
    /\ rpc = "open"
    /\ \E bad \in FaultChoice, stuck \in SUBSET Listed(file_paths) :
          /\ Spend(bad)
          /\ IF bad
             THEN /\ fs' = ExceptCleanup(fs, file_paths, stuck)
                  /\ rpc' = "failed"
                  /\ response' = [status |-> 500]
             ELSE /\ fs' = WriteFile(fs, UploadTarget, RawContent(<< >>))
                  /\ rpc' = "write"
                  /\ UNCHANGED response
    /\ UNCHANGED <<cfgvars, cpath, cconv, ccalls, saves, xcalls, svars, request, upload_info,
                   scheduled, dvars, outputs, client, save_output, fvars, bvars>>

\* lines 87-88: the content is read and written through the open file; a file
\* removed since it was opened stays removed.  bad: the write raises; the file
\* being written is not in file_paths yet and stays, and of the uploads saved
\* so far those whose os.remove raises stay
Route_Write ==
    /\ rpc = "write"
    /\ \E bad \in FaultChoice, stuck \in SUBSET Listed(file_paths) :
          /\ Spend(bad)
          /\ IF bad
             THEN /\ fs' = ExceptCleanup(fs, file_paths, stuck)
                  /\ rpc' = "failed"
                  /\ response' = [status |-> 500]
             ELSE /\ fs' = IF UploadTarget \in DOMAIN fs
                           THEN WriteFile(fs, UploadTarget, request[UploadIndex].content)
                           ELSE fs
                  /\ rpc' = "close"
                  /\ UNCHANGED response
    /\ UNCHANGED <<cfgvars, cpath, cconv, ccalls, saves, xcalls, svars, request, upload_info,
                   scheduled, dvars, outputs, client, save_output, fvars, bvars>>

\* lines 88-100: the file is closed and recorded with the size of the content
\* read; after the last one process_multiple_files is called
Route_Close ==
    /\ rpc = "close"
    /\ upload_info' = Append(upload_info,
           [original_name |-> request[UploadIndex].filename,
            saved_path |-> UploadTarget,
            size |-> getsize(request[UploadIndex].content)])
    /\ file_paths' = Append(file_paths, UploadTarget)
    /\ IF UploadIndex < Len(request)
       THEN /\ rpc' = "open"
            /\ UNCHANGED <<bi, results, bpc>>
       ELSE /\ rpc' = "processing"
            /\ bi' = 0
            /\ results' = InitialResults(file_paths')
            /\ bpc' = "loop"
    /\ UNCHANGED <<cfgvars, cpath, cconv, ccalls, saves, xcalls, svars, request, scheduled,
                   response, fs, dvars, outputs, client, faults, save_output, fvars>>

\* lines 100-111: process_multiple_files returned; one cleanup task per upload
\* is scheduled and the result goes back with the upload information
Route_Respond ==
    /\ rpc = "processing" /\ bpc = "returned"
    /\ scheduled' = file_paths
    /\ response' =
           [status |-> 200,
            body |-> [upload_info |-> upload_info, cleanup_scheduled |-> TRUE] @@ results]
    /\ rpc' = "responded"
    /\ bpc' = "none"
    /\ UNCHANGED <<cfgvars, cpath, cconv, ccalls, saves, xcalls, svars, request, upload_info,
                   fs, dvars, outputs, client, faults, save_output, fvars, file_paths, bi,
                   results>>

\* lines 218-225.  raises: os.remove raises, which is caught
cleanup_uploaded_file(f, path, raises) ==
    IF path \in DOMAIN f /\ ~raises THEN Without(f, {path}) ELSE f

RECURSIVE RunTasks(_, _, _)
\* the scheduled tasks run one after the other
RunTasks(f, tasks, stuck) ==
    IF tasks = << >> THEN f
    ELSE RunTasks(cleanup_uploaded_file(f, Head(tasks), Head(tasks) \in stuck),
                  Tail(tasks), stuck)

\* The background tasks of the response: cleanup_uploaded_file for each upload,
\* in the order scheduled; none of them awaits, so nothing runs in between.
\* stuck: the uploads whose os.remove raises
Route_Background ==
    /\ rpc \in {"responded", "swept"} /\ scheduled # << >>
    /\ \E stuck \in SUBSET Listed(scheduled) :
          fs' = RunTasks(fs, scheduled, stuck)
    /\ scheduled' = << >>
    /\ UNCHANGED <<cfgvars, cpath, cconv, ccalls, saves, xcalls, svars, rpc, request,
                   upload_info, response, dvars,
                   outputs, client, faults, save_output, fvars, bvars>>

\* DELETE /cleanup, lines 178-215: the files of both directories are removed,
\* each in a try of its own.  It is served before the /process request, while
\* its handler is suspended at an await of the upload loop, and after the
\* handler returned; it never awaits itself.  stuck_uploads / stuck_outputs:
\* the files whose os.remove raises, which is caught; they stay.  After the
\* handler returned one such request is followed: what several of them leave,
\* before or after the background tasks, one of them can leave as well
cleanup_all_files ==
    /\ rpc \in {"request", "open", "write", "close", "responded", "failed"}
    /\ \E stuck_uploads \in SUBSET DOMAIN fs, stuck_outputs \in SUBSET DOMAIN outputs :
          /\ fs' = Without(fs, (DOMAIN fs) \ stuck_uploads)
          /\ outputs' = Without(outputs, (DOMAIN outputs) \ stuck_outputs)
    /\ rpc' = IF rpc \in {"responded", "failed"} THEN "swept" ELSE rpc
    /\ UNCHANGED <<cfgvars, cpath, cconv, ccalls, saves, xcalls, svars, request, upload_info,
                   scheduled, response, dvars, client, faults, save_output, fvars, bvars>>

routes == Route_Start \/ Route_Open \/ Route_Write \/ Route_Close \/ Route_Respond
              \/ Route_Background \/ cleanup_all_files

\* ------------------------------------------------------------------ inputs
PdfInputs ==
    { PdfContent(b, Pages(s)) : b \in 0..MaxPdfBase, s \in SeqsUpTo(1..MaxPageSize, MaxDocPages) }
RawInputs == { RawContent(d) : d \in SeqsUpTo(0..MaxByte, MaxRawLen) }

\* an upload: a .pdf that opens, a .pdf that does not, or another format
Uploads ==
    { [ext |-> ".pdf", c |-> c] : c \in PdfInputs }
    \cup { [ext |-> e, c |-> c] : e \in {".pdf", ".docx"}, c \in RawInputs }

\* ------------------------------------------------------------------ specifications
NoDivider == dpc = "none" /\ dpath = NoPath /\ dfault = NoFault /\ dret = << >>
NoBatch == file_paths = << >> /\ bi = 0 /\ results = << >> /\ bpc = "none"
NoSteps ==
    /\ spc = "none" /\ per_chunk = 0 /\ start_page = 0 /\ offset = 0
    /\ chunk_num = 0 /\ chunk_paths = << >>
NoRoute ==
    /\ rpc = "none" /\ request = << >> /\ upload_info = << >>
    /\ scheduled = << >> /\ response = << >>
NoHarness ==
    /\ cpath = NoPath /\ cconv = << >> /\ ccalls = << >> /\ saves = << >>
    /\ xcalls = << >> /\ NoSteps

\* Divider alone: check_and_divide_file applied to one upload
DivInit ==
    /\ maxBytes \in 1..MaxBytesBound
    /\ maxPages \in 1..MaxPagesBound
    /\ \E u \in Uploads :
          /\ dpath = PathOf("a", u.ext)
          /\ fs = WriteFile(<< >>, dpath, u.c)
    /\ dfault \in DivFaults
    /\ dpc = "call"
    /\ dret = << >>
    /\ outputs = << >> /\ client = TRUE /\ faults = 0 /\ save_output = TRUE
    /\ pc = "idle" /\ IdleFile
    /\ NoBatch /\ NoRoute
    /\ NoHarness

DivideCall ==
    /\ dpc = "call"
    /\ LET r == check_and_divide_file(fs, dpath, dfault)
       IN  /\ dret' = r.ret
           /\ fs' = r.fs
    /\ dpc' = "returned"
    /\ UNCHANGED <<cfgvars, hvars, dpath, dfault, outputs, client, faults, save_output, fvars, bvars>>

\* DocumentDivider().cleanup_chunks(dpath, dret) on the returned plan; at most one
\* os.remove raises
DivideCleanup ==
    /\ dpc = "returned"
    /\ \E stuck \in { {} } \cup { {dret[k]} : k \in 1..Len(dret) } :
          fs' = cleanup_chunks(fs, dpath, dret, stuck)
    /\ dpc' = "cleaned"
    /\ UNCHANGED <<cfgvars, hvars, dpath, dfault, dret, outputs, client, faults, save_output,
                   fvars, bvars>>

DivNext == DivideCall \/ DivideCleanup

SpecDivide == DivInit /\ [][DivNext]_vars

\* Divider step by step: check_and_divide_file with one action per iteration of
\* the loops of _divide_pdf_by_pages and _divide_large_file.  dpath, dfault and
\* dret are the argument, the failing chunk write and the returned list as above.
nonstep == <<cfgvars, dpc, dpath, dfault, outputs, client, faults, save_output, fvars, bvars,
             cpath, cconv, ccalls, saves, xcalls, rvars>>

StepInit ==
    /\ maxBytes \in 1..MaxBytesBound
    /\ maxPages \in 1..MaxPagesBound
    /\ \E u \in Uploads :
          /\ dpath = PathOf("a", u.ext)
          /\ fs = WriteFile(<< >>, dpath, u.c)
    /\ dfault \in DivFaults
    /\ dpc = "none"
    /\ dret = << >>
    /\ outputs = << >> /\ client = TRUE /\ faults = 0 /\ save_output = TRUE
    /\ pc = "idle" /\ IdleFile
    /\ NoBatch /\ NoRoute
    /\ cpath = NoPath /\ cconv = << >> /\ ccalls = << >> /\ saves = << >> /\ xcalls = << >>
    /\ spc = "call" /\ per_chunk = 0 /\ start_page = 0 /\ offset = 0
    /\ chunk_num = 0 /\ chunk_paths = << >>

\* mutant: the chunks always get MAX_PDF_PAGES pages, without the estimate of line 64
SD_CheckAlwaysMaxPages ==
    /\ spc = "call"
    /\ LET c == fs[dpath]
           file_size == getsize(c)
           total_pages == Len(c.pages)
       IN  IF Lower(dpath.ext) = ".pdf" /\ c.pdf
           THEN IF file_size <= maxBytes /\ total_pages <= maxPages
                THEN /\ dret' = <<dpath>> /\ spc' = "returned"
                     /\ UNCHANGED <<per_chunk, chunk_num>>
                ELSE /\ per_chunk' = maxPages
                     /\ chunk_num' = 1
                     /\ spc' = "pdf_loop"
                     /\ UNCHANGED dret
           ELSE IF file_size <= maxBytes
                THEN /\ dret' = <<dpath>> /\ spc' = "returned"
                     /\ UNCHANGED <<per_chunk, chunk_num>>
                ELSE /\ chunk_num' = 1
                     /\ spc' = "raw_loop"
                     /\ UNCHANGED <<dret, per_chunk>>
    /\ UNCHANGED <<nonstep, fs, start_page, offset, chunk_paths>>

\* divide.py 12-74 up to the return or the call of a dividing function
SD_Check ==
    /\ spc = "call"
    /\ LET c == fs[dpath]
           file_size == getsize(c)
           total_pages == Len(c.pages)
       IN  IF Lower(dpath.ext) = ".pdf" /\ c.pdf
           THEN IF file_size <= maxBytes /\ total_pages <= maxPages
                THEN /\ dret' = <<dpath>> /\ spc' = "returned"
                     /\ UNCHANGED <<per_chunk, chunk_num>>
                ELSE /\ per_chunk' = IF total_pages > maxPages THEN maxPages
                                     ELSE Max(1, (maxPages * maxBytes) \div file_size)
                     /\ chunk_num' = 1
                     /\ spc' = "pdf_loop"
                     /\ UNCHANGED dret
           ELSE IF file_size <= maxBytes
                THEN /\ dret' = <<dpath>> /\ spc' = "returned"
                     /\ UNCHANGED <<per_chunk, chunk_num>>
                ELSE /\ chunk_num' = 1
                     /\ spc' = "raw_loop"
                     /\ UNCHANGED <<dret, per_chunk>>
    /\ UNCHANGED <<nonstep, fs, start_page, offset, chunk_paths>>

\* mutant: the next chunk starts where this one started
SD_PdfIterationStays ==
    /\ spc = "pdf_loop"
    /\ start_page < Len(fs[dpath].pages)
    /\ LET end_page == Min(start_page + per_chunk, Len(fs[dpath].pages))
           chunk_path == ChunkPath(dpath, chunk_num, ".pdf")
       IN  /\ fs' = WriteFile(fs, chunk_path,
                              PdfContent(0, SubSeq(fs[dpath].pages, start_page + 1, end_page)))
           /\ chunk_paths' = Append(chunk_paths, chunk_path)
           /\ start_page' = start_page
           /\ chunk_num' = chunk_num + 1
           /\ UNCHANGED <<dret, spc>>
    /\ UNCHANGED <<nonstep, per_chunk, offset>>

\* divide.py 90-114: one iteration of the while loop; when saving chunk number
\* dfault.chunk raises (lines 102-103) the except clause returns [file_path]
SD_PdfIteration ==
    /\ spc = "pdf_loop"
    /\ start_page < Len(fs[dpath].pages)
    /\ LET end_page == Min(start_page + per_chunk, Len(fs[dpath].pages))
           chunk_path == ChunkPath(dpath, chunk_num, ".pdf")
           written == PdfContent(0, SubSeq(fs[dpath].pages, start_page + 1, end_page))
       IN  IF chunk_num = dfault.chunk
           THEN /\ fs' = FailedWrite(fs, chunk_path, written, dfault)
                /\ dret' = <<dpath>> /\ spc' = "returned"
                /\ UNCHANGED <<chunk_paths, start_page, chunk_num>>
           ELSE /\ fs' = WriteFile(fs, chunk_path, written)
                /\ chunk_paths' = Append(chunk_paths, chunk_path)
                /\ start_page' = end_page
                /\ chunk_num' = chunk_num + 1
                /\ UNCHANGED <<dret, spc>>
    /\ UNCHANGED <<nonstep, per_chunk, offset>>

\* divide.py 90 and 116: the loop condition fails and chunk_paths is returned
SD_PdfReturn ==
    /\ spc = "pdf_loop"
    /\ ~(start_page < Len(fs[dpath].pages))
    /\ dret' = chunk_paths
    /\ spc' = "returned"
    /\ UNCHANGED <<nonstep, fs, per_chunk, start_page, offset, chunk_num, chunk_paths>>

\* divide.py 129-148: one iteration that read a non-empty chunk_data; when
\* saving chunk number dfault.chunk raises (lines 137-138) the except clause
\* returns [file_path]
SD_RawIteration ==
    /\ spc = "raw_loop"
    /\ LET data == fs[dpath].data
           chunk_data == SubSeq(data, offset + 1, Min(offset + maxBytes, Len(data)))
           chunk_path == ChunkPath(dpath, chunk_num, dpath.ext)
       IN  /\ chunk_data # << >>
           /\ IF chunk_num = dfault.chunk
              THEN /\ fs' = FailedWrite(fs, chunk_path, RawContent(chunk_data), dfault)
                   /\ dret' = <<dpath>> /\ spc' = "returned"
                   /\ offset' = offset + Len(chunk_data)
                   /\ UNCHANGED <<chunk_paths, chunk_num>>
              ELSE /\ fs' = WriteFile(fs, chunk_path, RawContent(chunk_data))
                   /\ chunk_paths' = Append(chunk_paths, chunk_path)
                   /\ offset' = offset + Len(chunk_data)
                   /\ chunk_num' = chunk_num + 1
                   /\ UNCHANGED <<dret, spc>>
    /\ UNCHANGED <<nonstep, per_chunk, start_page>>

\* divide.py 130-133 and 150: the read returned nothing, the loop breaks
SD_RawReturn ==
    /\ spc = "raw_loop"
    /\ SubSeq(fs[dpath].data, offset + 1, Min(offset + maxBytes, Len(fs[dpath].data))) = << >>
    /\ dret' = chunk_paths
    /\ spc' = "returned"
    /\ UNCHANGED <<nonstep, fs, per_chunk, start_page, offset, chunk_num, chunk_paths>>

StepNext ==
    \/ SD_Check
    \/ SD_PdfIteration
    \/ SD_PdfReturn
    \/ SD_RawIteration
    \/ SD_RawReturn

\* a running call goes on: the code is sequential and nothing blocks it
SpecDivideSteps == StepInit /\ [][StepNext]_vars /\ WF_vars(StepNext)

\* The upload directory of the pipeline runs: a PDF of 2 * maxPages + 1 one-byte
\* pages, a text file with the same stem, and an office document.
\* a.txt is cut by _divide_large_file into the windows <<1, 0xE9>> and <<1>>
PipelineDir ==
    LET a_pdf == PdfContent(0, Pages([i \in 1..(2 * maxPages + 1) |-> 1]))
    IN  WriteFile(WriteFile(WriteFile(WriteFile(<< >>,
            PathOf("a", ".pdf"), a_pdf),
            PathOf("a", ".txt"), RawContent(<<1, 2, 1>>)),
            PathOf("b", ".docx"), RawContent(<<1>>)),
            PathOf("c", ".zip"), RawContent(<<1>>))

\* the paths a caller may pass: the directory's files and one that does not exist
Candidates == (DOMAIN PipelineDir) \cup { PathOf("m", ".pdf") }

\* the paths given to a batch
BatchCandidates == { PathOf("a", ".pdf"), PathOf("m", ".pdf") }

PipelineInit ==
    /\ maxBytes = MaxPipeBytes
    /\ fs = PipelineDir
    /\ outputs = << >>
    /\ save_output \in BOOLEAN
    /\ NoDivider
    /\ NoHarness

\* One call of process_single_file
FileInit ==
    /\ maxPages \in 1..MaxPipePages
    /\ PipelineInit
    /\ client \in BOOLEAN
    /\ faults = MaxFileFaults
    /\ file_path \in Candidates
    /\ pc = "call"
    /\ result = << >> /\ pdf_file_path = NoPath /\ file_chunks = << >> /\ j = 0
    /\ all_extracted_text = << >> /\ extraction_results = << >> /\ exc = "" /\ ops = << >>
    /\ NoBatch /\ NoRoute

SpecFile == FileInit /\ [][process_single_file]_vars

\* One call of process_multiple_files, made directly on a list of paths, or one
\* /process request about to be handled, with the cleanup route and the
\* background tasks around it
\* what an earlier request left behind: an upload whose cleanup task failed
OldUpload == UploadPath(MaxUploads + 1, [stem |-> "b", ext |-> ".docx"])
OldUploads == WriteFile(<< >>, OldUpload, RawContent(<<1>>))

Init ==
    /\ maxPages = MaxPipePages
    /\ maxBytes = MaxPipeBytes
    /\ save_output \in BOOLEAN
    /\ NoDivider
    /\ NoHarness
    /\ client \in BOOLEAN
    /\ faults = MaxBatchFaults
    /\ bi = 0
    /\ pc = "idle" /\ IdleFile
    /\ request = << >> /\ upload_info = << >> /\ scheduled = << >> /\ response = << >>
    /\ \/ /\ fs = PipelineDir
          /\ outputs = << >>
          /\ file_paths \in { s \in SeqsUpTo(BatchCandidates, MaxFiles) : s # << >> }
          /\ results = InitialResults(file_paths)
          /\ bpc = "loop"
          /\ rpc = "none"
       \/ /\ fs = OldUploads
          /\ outputs = << >>
          /\ file_paths = << >>
          /\ results = << >>
          /\ bpc = "none"
          /\ rpc = "request"

Next == process_multiple_files \/ process_single_file \/ routes

Spec == Init /\ [][Next]_vars

\* what the harness runs leave alone: the pipeline is idle
Quiet ==
    /\ maxBytes = MaxPipeBytes /\ maxPages = MaxPipePages
    /\ outputs = << >> /\ client = TRUE /\ faults = 0 /\ save_output = TRUE
    /\ pc = "idle" /\ IdleFile
    /\ NoBatch /\ NoRoute /\ NoDivider

\* Normalizer alone: convert_to_pdf applied to a path, then to what it returned
ConvExts == {".pdf", ".PDF", ".docx", ".txt", ".png", ".zip", ".rar", ".dat"}
ConvDocs == { ConvertedDoc, PdfContent(0, Pages(<<1>>)) }
ConvInput(ext) ==
    IF Lower(ext) = ".pdf" THEN PdfContent(0, Pages(<<1>>)) ELSE RawContent(<<1>>)

\* the input file exists or not, and an output of an earlier conversion of the
\* same file may be lying in the directory
ConvInit ==
    /\ Quiet
    /\ cpath \in { PathOf("x", e) : e \in ConvExts }
    /\ \E present, stale \in BOOLEAN :
          fs = LET own == IF present THEN WriteFile(<< >>, cpath, ConvInput(cpath.ext))
                          ELSE << >>
               IN  IF stale THEN WriteFile(own, ConvertedPath(cpath), ConvertedDoc)
                   ELSE own
    /\ cconv = << >>
    /\ ccalls = << >>
    /\ saves = << >>
    /\ xcalls = << >> /\ NoSteps

\* what the backends would do in one call on arg, were they reached: any of
\* the ways listed at Backends, chosen anew at every call.  The archive backend
\* opens its input only when it is a .zip (lines 319-324): a .rar or a .7z is
\* listed by name whether it exists or not, a missing .zip fails before
\* temp_txt.  The other backends cannot write a PDF from a file that is missing.
ConvChoices(f, arg) ==
    [kind : IF arg \in DOMAIN f \/ Lower(arg.ext) \in {".rar", ".7z"} THEN ConvKindsOf(arg)
            ELSE IF IsArchive(arg) THEN {"raised"}
            ELSE {"raised", "raised_partial"},
     doc : ConvDocs]

\* convert_to_pdf applied to cpath, then to the path the call before returned
ConvertCall ==
    /\ Len(ccalls) < MaxConvertCalls
    /\ LET arg == IF ccalls = << >> THEN cpath ELSE ccalls[Len(ccalls)].ret
       IN  \E conv \in ConvChoices(fs, arg) :
              LET r == convert_to_pdf(fs, arg, conv)
              IN  /\ fs' = r.fs
                  /\ cconv' = conv
                  /\ ccalls' = Append(ccalls, [arg |-> arg, conv |-> conv, ret |-> r.ret,
                                               raised |-> r.raised,
                                               before |-> fs, after |-> r.fs])
    /\ UNCHANGED <<cfgvars, cpath, saves, xcalls, svars, rvars, dvars, outputs, client, faults,
                   save_output, fvars, bvars>>

ConvNext == ConvertCall

SpecConvert == ConvInit /\ [][ConvNext]_vars

\* Output files alone: texts saved one after the other into an empty OUTPUT_DIR
SavePaths == DOMAIN PipelineDir
SaveArgs ==
    { [text |-> <<Tok("char", 1)>>, metadata |-> << >>],
      [text |-> <<Tok("char", 1)>> \o NL \o <<Tok("char", 2)>>,
       metadata |-> [chunks_processed |-> 2]] }

SaveInit ==
    /\ Quiet
    /\ fs = PipelineDir
    /\ cpath = NoPath /\ cconv = << >> /\ ccalls = << >>
    /\ saves = << >>
    /\ xcalls = << >> /\ NoSteps

SaveCall ==
    /\ Len(saves) < MaxSaves
    /\ \E original_file_path \in SavePaths, a \in SaveArgs :
          LET r == _save_extracted_text(outputs, original_file_path, a.text, a.metadata, "ok")
          IN  /\ outputs' = r.outputs
              /\ saves' = Append(saves, [path |-> original_file_path, text |-> a.text,
                                         ret |-> r.ret])
    /\ UNCHANGED <<cfgvars, cpath, cconv, ccalls, xcalls, svars, rvars, fs, dvars, client, faults,
                   save_output, fvars, bvars>>

SaveNext == SaveCall

SpecSave == SaveInit /\ [][SaveNext]_vars

\* Extraction adapter alone: process_document called by freshly constructed
\* extractors on the files of a directory and on paths that do not exist
\* x.txt is ASCII, e.txt blank, h.txt and l.txt hold the byte 0xE9 in an even and
\* an odd number of bytes
ExtDir ==
    WriteFile(WriteFile(WriteFile(WriteFile(WriteFile(WriteFile(<< >>,
        PathOf("x", ".pdf"), PdfContent(0, Pages(<<1>>))),
        PathOf("x", ".png"), RawContent(<<1>>)),
        PathOf("x", ".txt"), RawContent(<<1, 0>>)),
        PathOf("e", ".txt"), RawContent(<<0>>)),
        PathOf("h", ".txt"), RawContent(<<2, 1>>)),
        PathOf("l", ".txt"), RawContent(<<2, 0, 1>>))
ExtPaths == (DOMAIN ExtDir) \cup { PathOf("m", ".pdf"), PathOf("m", ".txt") }

\* the documents the remote service may answer with: each of the three fields
\* absent, made of whitespace only, or holding text; without pages, and, for
\* the answers that have neither chunks nor blocks, with two pages
ExtDocs ==
    { Document(d[1], d[2], d[3], d[4]) : d \in
        { e \in { << >>, <<Tok("sp", 0)>>, <<Tok("char", 1)>> }
                 \X { << >>, <<<<Tok("sp", 0)>>>>, <<<<Tok("char", 2)>>, << >>>> }
                 \X { << >>, <<None, Some(<<Tok("sp", 0)>>)>>, <<Some(<<Tok("char", 3)>>), None>> }
                 \X { 0, 2 } :
            e[4] = 0 \/ (e[2] = << >> /\ e[3] = << >>) } }
ExtResponses == ExtDocs \cup { RemoteError }
\* no request was sent, so there is no answer
NoResponse == None

ExtInit ==
    /\ Quiet
    /\ fs = ExtDir
    /\ cpath = NoPath /\ cconv = << >> /\ ccalls = << >> /\ saves = << >>
    /\ xcalls = << >> /\ NoSteps

\* TextExtractor().process_document(path): cl is whether _initialize_client
\* (lines 16-27) got a client
ExtractCall ==
    /\ Len(xcalls) < MaxExtractCalls
    /\ \E path \in ExtPaths, cl \in BOOLEAN :
       \E readable \in IF path \in DOMAIN fs THEN BOOLEAN ELSE {FALSE} :
       \E resp \in IF SendsRequest(fs, path, cl, readable) THEN ExtResponses
                   ELSE {NoResponse} :
          /\ client' = cl
          /\ xcalls' = Append(xcalls,
                 [path |-> path, client |-> cl, readable |-> readable,
                  requested |-> SendsRequest(fs, path, cl, readable), resp |-> resp,
                  ret |-> process_document(fs, path, cl, readable, resp)])
    /\ UNCHANGED <<cfgvars, cpath, cconv, ccalls, saves, svars, rvars, fs, dvars, outputs, faults,
                   save_output, fvars, bvars>>

ExtNext == ExtractCall

SpecExtract == ExtInit /\ [][ExtNext]_vars

\* ------------------------------------------------------------------ divider claims
CeilDiv(a, b) == (a + b - 1) \div b

\* the input is a .pdf that PdfReader opens
Paged == dpath.ext = ".pdf" /\ fs[dpath].pdf
SrcPages == fs[dpath].pages
SrcSize == getsize(fs[dpath])

RECURSIVE ConcatData(_, _)
ConcatData(f, paths) ==
    IF paths = << >> THEN << >> ELSE f[Head(paths)].data \o ConcatData(f, Tail(paths))

\* C1: a file with byte size <= maxBytes that is non-paged or has pages <= maxPages
\* comes back as the one-element list holding the input path, and no chunk file
\* is written (the directory still holds the input file alone).
C1_IdentityPlan ==
    (dpc = "returned" /\ SrcSize <= maxBytes /\ (~Paged \/ Len(SrcPages) <= maxPages))
        => (dret = <<dpath>> /\ DOMAIN fs = {dpath})

\* C1 case: a PDF exactly at both limits was checked and returned as it is
C1_Witness ==
    /\ dpc = "returned" /\ Paged
    /\ SrcSize = maxBytes /\ Len(SrcPages) = maxPages /\ maxPages >= 2
    /\ dret = <<dpath>>

\* C2: a readable PDF with pages > maxPages, divided without I/O failure, yields
\* ceil(pages / maxPages) chunks; the k-th chunk holds exactly the source pages
\* [(k-1)*maxPages, min(k*maxPages, pages)), so the ranges are contiguous, in
\* order, disjoint, cover every page once, and all but the last have maxPages pages.
C2_PagePartition ==
    (dpc = "returned" /\ Paged /\ Len(SrcPages) > maxPages /\ dfault = NoFault)
        => /\ Len(dret) = CeilDiv(Len(SrcPages), maxPages)
           /\ \A k \in 1..Len(dret) :
                 /\ dret[k] \in DOMAIN fs
                 /\ fs[dret[k]].pdf
                 /\ fs[dret[k]].pages =
                        SubSeq(SrcPages, (k - 1) * maxPages + 1,
                               Min(k * maxPages, Len(SrcPages)))
                 /\ (k < Len(dret) => Len(fs[dret[k]].pages) = maxPages)
           /\ \A i \in 1..Len(SrcPages) :
                 Cardinality({ k \in 1..Len(dret) :
                                 \E n \in 1..Len(fs[dret[k]].pages) :
                                     fs[dret[k]].pages[n].id = i }) = 1

\* C2 case: a division into two or more chunks whose last chunk is shorter
C2_Witness ==
    /\ dpc = "returned" /\ Paged /\ dfault = NoFault
    /\ Len(SrcPages) > maxPages /\ maxPages >= 2
    /\ Len(dret) >= 2
    /\ Len(fs[dret[Len(dret)]].pages) < maxPages

\* C3: a non-paged file larger than maxBytes, divided without I/O failure: the
\* chunks' bytes concatenated in chunk order are the file's bytes, every chunk
\* has at most maxBytes bytes and every chunk but the last exactly maxBytes.
C3_ByteWindows ==
    (dpc = "returned" /\ ~Paged /\ SrcSize > maxBytes /\ dfault = NoFault)
        => /\ ConcatData(fs, dret) = fs[dpath].data
           /\ \A k \in 1..Len(dret) :
                 /\ Len(fs[dret[k]].data) <= maxBytes
                 /\ (k < Len(dret) => Len(fs[dret[k]].data) = maxBytes)

\* C3 case: byte windows were written and the last one is shorter than maxBytes
C3_Witness ==
    /\ dpc = "returned" /\ ~Paged /\ dfault = NoFault /\ SrcSize > maxBytes
    /\ Len(dret) >= 2
    /\ Len(fs[dret[Len(dret)]].data) < maxBytes
    /\ \E i, n \in 1..Len(fs[dpath].data) : fs[dpath].data[i] # fs[dpath].data[n]

\* C4: every chunk of the plan for a file that violates a limit satisfies both
\* limits at once: at most maxBytes bytes and, when paged, at most maxPages
\* pages.  Stated for the sources where such a plan exists (each page by itself
\* fits in maxBytes) and for divisions without I/O failure.
C4_ChunksWithinBothLimits ==
    (/\ dpc = "returned" /\ dfault = NoFault
     /\ (SrcSize > maxBytes \/ (Paged /\ Len(SrcPages) > maxPages))
     /\ (Paged => \A i \in 1..Len(SrcPages) : SrcPages[i].size <= maxBytes))
        => \A k \in 1..Len(dret) :
              /\ getsize(fs[dret[k]]) <= maxBytes
              /\ Len(fs[dret[k]].pages) <= maxPages

\* ------------------------------------------------------------------ orchestrator claims
Returned == pc = "returned"
NChunks == Len(file_chunks)
FailedChunks == { k \in 1..Len(extraction_results) : ~extraction_results[k].success }
\* failures the environment injected into this process_single_file run
SpentFile == MaxFileFaults - faults
\* the chunk paths given to the extractor, in call order
RECURSIVE ExtractCalls(_)
ExtractCalls(log) ==
    IF log = << >> THEN << >>
    ELSE IF Head(log).op = "extract" THEN <<Head(log).path>> \o ExtractCalls(Tail(log))
    ELSE ExtractCalls(Tail(log))
\* the text expected at position k: the extractor's text, or the placeholder
ExpectedText(k) ==
    IF k \in FailedChunks THEN NO_TEXT_CHUNK ELSE extraction_results[k].text
NonEmptyMsg(e) == e # None /\ e[1].prefix # ""

\* C5: when exactly one of N > 1 chunks fails extraction (and that failure is the
\* only one injected into the run) the extraction loop still visits every chunk
\* in order, the kept texts are the extractor's texts with the placeholder at
\* exactly the failed position, and the call returns success = true,
\* chunks_processed = N and these texts joined in chunk order.
C5_OneChunkFailureIsolated ==
    (NChunks > 1 /\ Cardinality(FailedChunks) = 1 /\ pc \notin {"extract", "chunk_cleanup"})
        => /\ Len(extraction_results) = NChunks
           /\ ExtractCalls(ops) = file_chunks
           /\ all_extracted_text = [k \in 1..NChunks |-> ExpectedText(k)]
           /\ \A k \in 1..NChunks :
                 (all_extracted_text[k] = NO_TEXT_CHUNK) <=> (k \in FailedChunks)
           /\ (Returned /\ SpentFile = 1) =>
                 /\ result.success
                 /\ result.metadata.chunks_processed = NChunks
                 /\ result.extracted_text =
                        Join(CHUNK_SEPARATOR, [k \in 1..NChunks |-> ExpectedText(k)])

\* C5 case: three chunks, the middle one failed, the call returned successfully
C5_Witness ==
    /\ Returned /\ NChunks = 3 /\ FailedChunks = {2} /\ SpentFile = 1
    /\ result.success
    /\ extraction_results[1].success /\ extraction_results[3].success

\* C6: a returned batch reports success = true whenever at least one file
\* succeeded; every path got its result, whatever happened to the files before
\* it; and when nothing else fails, the missing files are the failed ones and
\* the existing ones the successful ones (of 3 files with the second missing:
\* successful_files = 2, failed_files = 1, success = true).
C6_PartialSuccess ==
    bpc = "returned" =>
        /\ (results.successful_files >= 1 => results.success)
        /\ Len(results.individual_results) = Len(file_paths)
        /\ faults = MaxBatchFaults =>
              /\ \A i \in 1..Len(file_paths) :
                    results.individual_results[i].success <=> (file_paths[i] \in DOMAIN fs)
              /\ results.successful_files =
                    Cardinality({ i \in 1..Len(file_paths) : file_paths[i] \in DOMAIN fs })
              /\ results.failed_files =
                    Cardinality({ i \in 1..Len(file_paths) : file_paths[i] \notin DOMAIN fs })

\* C6 case: three files, the second missing, the other two extracted
C6_Witness ==
    /\ bpc = "returned" /\ faults = MaxBatchFaults
    /\ file_paths = <<PathOf("a", ".pdf"), PathOf("m", ".pdf"), PathOf("a", ".pdf")>>
    /\ results.successful_files = 2 /\ results.failed_files = 1 /\ results.success

\* C7: process_multiple_files never raises: whatever fails in conversion,
\* division, extraction, output saving and error-file saving (the calls of the
\* record store do not fail), no exception leaves process_single_file, and the
\* batch returns a structured result: one entry per path, each with a success
\* flag and, when it failed, an error message, and the counts of the entries.
C7_NeverRaises ==
    /\ pc # "raised"
    /\ bpc = "returned" =>
          LET rs == results.individual_results
          IN  /\ Len(rs) = Len(file_paths)
              /\ results.total_files = Len(file_paths)
              /\ results.successful_files + results.failed_files = Len(file_paths)
              /\ \A i \in 1..Len(rs) :
                    /\ rs[i].success \in BOOLEAN
                    /\ ~rs[i].success => NonEmptyMsg(rs[i].error)

\* C7 case: the batch returned although saving the output of a.pdf raised and
\* then opening its error file raised too
C7_Witness ==
    /\ bpc = "returned" /\ faults = 0
    /\ \E i \in 1..Len(file_paths) :
          /\ file_paths[i] = PathOf("a", ".pdf")
          /\ results.individual_results[i].error =
                 Some(Msg("Error processing", "cannot write output file"))
    /\ OutName(StemOf(PathOf("a", ".pdf")), "extraction_error", 0) \notin DOMAIN outputs

\* C8: a returned batch has one entry per path, the i-th entry being the result
\* for the i-th path, total_files = n, and successful_files + failed_files = n
\* with successful_files the number of entries having success = true.
C8_ResultsInInputOrder ==
    bpc = "returned" =>
        LET n == Len(file_paths)
            rs == results.individual_results
        IN  /\ Len(rs) = n
            /\ \A i \in 1..n : rs[i].file_path = file_paths[i]
            /\ results.total_files = n
            /\ results.successful_files + results.failed_files = n
            /\ results.successful_files = Cardinality({ i \in 1..n : rs[i].success })

\* C8 case: a batch of three paths, not all the same, with both outcomes
C8_Witness ==
    /\ bpc = "returned" /\ Len(file_paths) = 3
    /\ file_paths[1] # file_paths[2]
    /\ results.successful_files = 2 /\ results.failed_files = 1

\* C9: in every result process_single_file returns, success = false exactly when
\* error is a non-empty message and success = true exactly when error is None.
C9_StatusAndError ==
    Returned =>
        /\ ~result.success <=> NonEmptyMsg(result.error)
        /\ result.success <=> (result.error = None)

\* C9 case: a file that failed after conversion and division had been done
C9_Witness ==
    /\ Returned /\ ~result.success /\ NonEmptyMsg(result.error)
    /\ Len(result.processing_steps) >= 2

\* C10: for a missing input file the call does one thing, it returns
\* success = false with an error: no record is created, nothing is converted,
\* divided or extracted, no file is written or deleted, processing_steps is empty.
C10_MissingFileFailsImmediately ==
    file_path \notin DOMAIN fs =>
        /\ pc \in {"idle", "call", "returned"}
        /\ Returned =>
              /\ ~result.success /\ NonEmptyMsg(result.error)
              /\ result.processing_steps = << >>
              /\ result.record_id = None /\ result.output_file = None
              /\ ops = << >>
              /\ fs = PipelineDir /\ outputs = << >>
              /\ faults = MaxFileFaults

\* C10 case: the call on the missing path has returned, with output saving requested
C10_Witness ==
    /\ Returned /\ file_path = PathOf("m", ".pdf") /\ save_output
    /\ ~result.success

\* ------------------------------------------------------------------ failure-handling claims
\* the names of the calls logged in ops, in call order
OpNames == [i \in 1..Len(ops) |-> ops[i].op]
IsUpdate(n) == n \in {"record_update_completed", "record_update_failed"}
\* the file given to process_single_file exists
Existing == file_path \in DOMAIN PipelineDir
ErrorFile == OutName(StemOf(file_path), "extraction_error", 0)
Logged(name) == \E i \in 1..Len(ops) : ops[i].op = name

\* C11: every process_single_file run that returns a failed result with
\* save_output = true has persisted <stem>_extraction_error.txt holding the
\* source path and the error text, whatever made it fail, a missing input file
\* included (runs in which writing the error file itself raised are left out).
C11_FailedPersistsErrorArtifact ==
    (Returned /\ ~result.success /\ save_output /\ ~Logged("save_error_raised"))
        => /\ ErrorFile \in DOMAIN outputs
           /\ outputs[ErrorFile].source = file_path

\* C12: for every call on an existing file the record is created once, first
\* and before conversion, and exactly one status update follows, as the call
\* returns: 'completed' iff the returned result has success = true, 'failed'
\* iff it has success = false; no update is made before that, and after it
\* only the error file is written.
C12_RecordLifecycle ==
    /\ ~Returned => SelectSeq(OpNames, IsUpdate) = << >>
    /\ (ops # << >> /\ Existing) => OpNames[1] = "record_create"
    /\ (pc = "convert" /\ Existing) => OpNames = <<"record_create">>
    /\ (Returned /\ Existing)
          => LET updates == SelectSeq(OpNames, IsUpdate)
             IN  /\ result.record_id # None
                 /\ Cardinality({ i \in 1..Len(ops) : OpNames[i] = "record_create" }) = 1
                 /\ Len(updates) = 1
                 /\ IsUpdate(OpNames[Len(ops)])
                       \/ (OpNames[Len(ops)] \in {"save_error", "save_error_raised"}
                             /\ IsUpdate(OpNames[Len(ops) - 1]))
                 /\ (updates[1] = "record_update_completed") <=> result.success
                 /\ (updates[1] = "record_update_failed") <=> ~result.success

\* C12 case: saving the output raised after conversion, division and
\* extraction; the record got the one update 'failed'
C12_Witness ==
    /\ Returned /\ Existing /\ ~result.success
    /\ exc = "cannot write output file"
    /\ Len(result.processing_steps) = 3
    /\ SelectSeq(OpNames, IsUpdate) = <<"record_update_failed">>

\* ------------------------------------------------------------------ chunk-loop claims
\* occurrences of the chunk-separator marker in a text
RECURSIVE Markers(_)
Markers(text) ==
    IF text = << >> THEN 0
    ELSE (IF Head(text).k = "chunk_separator" THEN 1 ELSE 0) + Markers(Tail(text))
\* the merge step of the running call is done
Merged == result # << >> /\ Len(result.processing_steps) = 3
\* os.remove raised for path p during the running call
RemoveRaised(p) == \E i \in 1..Len(ops) : ops[i] = Op("remove_raised", p)

\* C14: for a file divided into N >= 1 chunks the extractor is called exactly N
\* times, once per chunk in chunk order, and the merged text is the per-chunk
\* texts in chunk order joined by the chunk-separator marker: N - 1 markers
\* (none when N = 1).  With maxPages = 2, 5 pages give chunks of 2, 2, 1 pages,
\* 3 extraction calls and 2 markers.
C14_OneExtractionPerChunk ==
    (Merged /\ NChunks >= 1)
        => /\ ExtractCalls(ops) = file_chunks
           /\ Len(extraction_results) = NChunks
           /\ all_extracted_text = [k \in 1..NChunks |-> ExpectedText(k)]
           /\ result.extracted_text = Join(CHUNK_SEPARATOR, all_extracted_text)
           /\ Markers(result.extracted_text) = NChunks - 1
           /\ result.metadata.chunks_processed = NChunks

\* C14 case: five pages with maxPages = 2, extracted as chunks of 2, 2 and 1 pages
C14_Witness ==
    /\ Returned /\ result.success /\ maxPages = 2
    /\ NChunks = 3 /\ FailedChunks = {}
    /\ [k \in 1..3 |-> Len(all_extracted_text[k])] = <<2, 2, 1>>
    /\ Len(ExtractCalls(ops)) = 3
    /\ Markers(result.extracted_text) = 2

\* C15 as stated: a chunk file other than the original/converted PDF is
\* deleted right after its own extraction attempt, succeeded or failed, and
\* before the next extraction: when the extraction of chunk j+1 starts, the
\* chunk files 1..j no longer exist.
C15_ChunkAlwaysDeleted ==
    \A k \in 1..j :
        file_chunks[k] # pdf_file_path => file_chunks[k] \notin DOMAIN fs

\* C15, amended: the deletion of a chunk file other than the original/converted
\* PDF is attempted right after its own extraction attempt, succeeded or
\* failed, and not before: when the extraction of chunk j+1 starts, chunk j+1
\* still exists, the chunk files 1..j whose os.remove did not raise are gone,
\* and those whose os.remove raised, which the loop ignores, still exist.
C15_ChunkDeletedAfterItsExtraction ==
    /\ \A k \in 1..j :
          file_chunks[k] # pdf_file_path =>
              /\ ~RemoveRaised(file_chunks[k]) => file_chunks[k] \notin DOMAIN fs
              /\ RemoveRaised(file_chunks[k]) => file_chunks[k] \in DOMAIN fs
    /\ pc = "extract" => file_chunks[j + 1] \in DOMAIN fs
    /\ pc = "chunk_cleanup" => file_chunks[j + 1] \in DOMAIN fs

\* C15 case: the third chunk's extraction starts after a failed and a
\* successful one; the first chunk is gone and the second, whose os.remove
\* raised, is still there
C15_Witness ==
    /\ pc = "extract" /\ j = 2 /\ NChunks = 3
    /\ ~extraction_results[1].success /\ extraction_results[2].success
    /\ file_chunks[1] \notin DOMAIN fs
    /\ RemoveRaised(file_chunks[2]) /\ file_chunks[2] \in DOMAIN fs
    /\ file_chunks[3] \in DOMAIN fs

\* ------------------------------------------------------------------ cleanup claims
\* a chunk file that is not in the plan: a failed division wrote it before it
\* fell back to the identity plan
OutsidePlan(p) == p.chunk > 0 /\ \A k \in 1..Len(file_chunks) : file_chunks[k] # p

\* C16: when process_single_file returns, successfully or not, no intermediate
\* artifact it created remains: the upload directory holds no chunk file of
\* the plan and no converted PDF, only the files it held before the call.
\* Files whose os.remove raised are left out, and so are the chunk files a
\* failed division leaves behind, which C17 is about.
C16_NoIntermediateArtifactRemains ==
    Returned =>
        \A p \in DOMAIN fs :
            p \in DOMAIN PipelineDir \/ RemoveRaised(p) \/ OutsidePlan(p)

\* the directory before the divider ran, and the plan a division without
\* failure makes for it
DivSource == [p \in {dpath} |-> fs[dpath]]
DivPlanned == check_and_divide_file(DivSource, dpath, NoFault).ret
\* the injected write failure was met: the division got as far as chunk dfault
DivFaultMet == dfault.chunk > 0 /\ DivPlanned # <<dpath>> /\ dfault.chunk <= Len(DivPlanned)

\* C17: when a write fails in the middle of dividing, after zero or more chunk
\* files were written, the divider returns the identity plan [original path]
\* and no chunk file is left on disk.
C17_FailedDivisionLeavesNoChunk ==
    (dpc = "returned" /\ DivFaultMet)
        => /\ dret = <<dpath>>
           /\ DOMAIN fs = {dpath}

\* ------------------------------------------------------------------ normalizer claims
\* C19: convert_to_pdf never raises: whatever the backends do (fail, time out,
\* fail after creating the output file) the orchestrator goes from converting
\* to dividing, and after a backend failure it goes on with the original path.
C19_ConversionNeverBlocks ==
    [][pc = "convert" =>
          /\ pc' = "divide"
          /\ pdf_file_path' \in {file_path, ConvertedPath(file_path)}
          /\ pdf_file_path' \in DOMAIN fs'
          /\ faults' < faults => pdf_file_path' = file_path]_vars

\* C19 case: the backends failed after creating the output file and the call
\* went on to extract from the original office document
C19_Witness ==
    /\ Returned /\ result.success /\ file_path = PathOf("b", ".docx")
    /\ pdf_file_path = file_path
    /\ ConvertedPath(file_path) \in DOMAIN fs
    /\ result.processing_steps[1].output = file_path
    /\ ExtractCalls(ops) = <<file_path>>

\* C18 as stated: convert_to_pdf is idempotent: applied to the path it
\* returned, it returns that path again, for any input path x:
\* convert_to_pdf(convert_to_pdf(x)) = convert_to_pdf(x).
C18_AlwaysIdempotent ==
    \A n \in 2..Len(ccalls) : ccalls[n].ret = ccalls[n - 1].ret

\* C18, amended: convert_to_pdf applied to a path it returned returns that
\* path again whenever the path has the .pdf extension (x was a PDF, or was
\* converted), and a path with the .pdf extension comes back unchanged with no
\* conversion attempted (no file is written).  After a failed conversion it
\* returned x itself, and applied to x again it attempts the conversion again
\* and returns x or the converted path.  It never raises.
C18_ConvertIdempotent ==
    /\ \A n \in 2..Len(ccalls) :
          /\ ccalls[n].arg = ccalls[n - 1].ret
          /\ Lower(ccalls[n - 1].ret.ext) = ".pdf" => ccalls[n].ret = ccalls[n - 1].ret
          /\ Lower(ccalls[n - 1].ret.ext) # ".pdf" =>
                /\ ccalls[n - 1].ret = ccalls[n - 1].arg
                /\ ccalls[n].ret \in {ccalls[n].arg, ConvertedPath(ccalls[n].arg)}
    /\ \A n \in 1..Len(ccalls) :
          /\ ~ccalls[n].raised
          /\ Lower(ccalls[n].arg.ext) = ".pdf" =>
                (ccalls[n].ret = ccalls[n].arg /\ ccalls[n].after = ccalls[n].before)

\* C18 case: an office document was converted and the converted path given back
\* to convert_to_pdf
C18_Witness ==
    /\ Len(ccalls) = 2 /\ cpath.ext = ".docx" /\ ccalls[1].conv.kind = "wrote"
    /\ ccalls[1].ret = ConvertedPath(cpath) /\ ccalls[1].ret # cpath
    /\ ccalls[2].arg = ccalls[1].ret /\ ccalls[2].ret = ccalls[1].ret
    /\ ccalls[2].after = ccalls[2].before

\* ------------------------------------------------------------------ output-file claims
\* the saves before the k-th that were for an input with the same stem
EarlierSameStem(k) == { i \in 1..(k - 1) : StemOf(saves[i].path) = StemOf(saves[k].path) }

\* C20: _save_extracted_text never overwrites: in any sequence of saves the
\* k-th save for a stem writes <stem>_extracted.txt (k = 1) or
\* <stem>_extracted_<k-1>.txt, a name no earlier save used, and every earlier
\* output file keeps its content.
C20_SaveNeverOverwrites ==
    \A k \in 1..Len(saves) :
        /\ saves[k].ret = OutName(StemOf(saves[k].path), "extracted",
                                  Cardinality(EarlierSameStem(k)))
        /\ \A i \in 1..(k - 1) : saves[i].ret # saves[k].ret
        /\ saves[k].ret \in DOMAIN outputs
        /\ outputs[saves[k].ret].text = saves[k].text
        /\ outputs[saves[k].ret].source = saves[k].path

\* C20 case: three saves for the stem a, from a.pdf and a.txt, with different texts
C20_Witness ==
    /\ Len(saves) = 3
    /\ saves[1].path = PathOf("a", ".pdf") /\ saves[2].path = PathOf("a", ".txt")
    /\ saves[3].path = PathOf("a", ".pdf")
    /\ saves[1].text # saves[2].text
    /\ [k \in 1..3 |-> saves[k].ret.n] = <<0, 1, 2>>
    /\ outputs[saves[1].ret].text = saves[1].text

\* ------------------------------------------------------------------ extraction-adapter claims
\* the n-th call got a document back from the remote service
Answered(n) == xcalls[n].requested /\ ~xcalls[n].resp.err
\* the n-th call was for a plain-text file
PlainText(n) == xcalls[n].path.ext = ".txt"

\* C21: the text taken from the remote document follows a fixed preference
\* order: the whole-document text with method direct_text if it is non-blank;
\* otherwise the concatenated content chunks with chunked_text if non-blank;
\* otherwise the concatenated layout block texts with layout_blocks if
\* non-blank; otherwise the "no text" sentinel with method none.
C21_PreferenceOrder ==
    \A n \in 1..Len(xcalls) :
        Answered(n) =>
            LET d == xcalls[n].resp
                r == xcalls[n].ret
                chunk_text == ConcatLines(d.chunks)
                layout_text == ConcatBlocks(d.blocks)
                got == <<r.text, r.metadata.extraction_method>>
            IN  /\ r.success
                /\ got = IF ~Blank(d.text) THEN <<d.text, "direct_text">>
                         ELSE IF ~Blank(chunk_text) THEN <<chunk_text, "chunked_text">>
                         ELSE IF ~Blank(layout_text) THEN <<layout_text, "layout_blocks">>
                         ELSE <<NO_TEXT_DOCUMENT, "none">>
                /\ r.metadata.extraction_method = "chunked_text" => Blank(d.text)
                /\ r.metadata.extraction_method = "layout_blocks" =>
                       Blank(d.text) /\ Blank(chunk_text)

\* C21 case: the whole-document text is whitespace only, chunks and blocks both
\* hold text, and the chunks were taken; another answer had nothing and gave
\* the sentinel
C21_Witness ==
    /\ Len(xcalls) = 2 /\ Answered(1) /\ Answered(2)
    /\ xcalls[1].resp.text = <<Tok("sp", 0)>>
    /\ ~Blank(ConcatLines(xcalls[1].resp.chunks))
    /\ ~Blank(ConcatBlocks(xcalls[1].resp.blocks))
    /\ xcalls[1].ret.metadata.extraction_method = "chunked_text"
    /\ xcalls[2].ret.text = NO_TEXT_DOCUMENT
    /\ xcalls[2].resp.blocks # << >>

\* something failed during the n-th call: no client for a file that needs the
\* remote service, the file could not be read, or the remote call raised
CallFailed(n) ==
    LET c == xcalls[n]
    IN  \/ ~PlainText(n) /\ ~c.client
        \/ ~c.readable
        \/ PlainText(n) /\ c.path \in DOMAIN fs /\ Decode(fs[c.path].data) = None
        \/ c.requested /\ c.resp.err

\* C22: every process_document call ends with an outcome; a transport,
\* service, client-initialisation or file-read error gives success = false with
\* the empty text and a non-empty error message, and in every outcome
\* success = false implies a non-empty error (success = true has error None).
C22_FailureCarriesError ==
    \A n \in 1..Len(xcalls) :
        LET r == xcalls[n].ret
        IN  /\ r.success \in BOOLEAN
            /\ CallFailed(n) => ~r.success
            /\ ~r.success => (r.text = << >> /\ r.error # None /\ r.error[1] # "")
            /\ r.success => r.error = None

\* C22 case: one call failed in the remote service, the next had no client
C22_Witness ==
    /\ Len(xcalls) = 2
    /\ xcalls[1].requested /\ xcalls[1].resp.err /\ ~xcalls[1].ret.success
    /\ ~PlainText(2) /\ ~xcalls[2].client /\ ~xcalls[2].ret.success
    /\ xcalls[1].ret.error # xcalls[2].ret.error

\* C23: a plain-text file is read directly, with method direct_read, and the
\* remote service is never contacted: the outcome of a call on a .txt path is
\* the same whether the client is initialised or not, and no request is sent.
C23_PlainTextBypassesRemote ==
    \A n \in 1..Len(xcalls) :
        PlainText(n) =>
            /\ ~xcalls[n].requested
            /\ xcalls[n].ret.success =>
                   xcalls[n].ret.metadata.extraction_method = "direct_read"
            /\ \A m \in 1..Len(xcalls) :
                   (xcalls[m].path = xcalls[n].path /\ xcalls[m].readable = xcalls[n].readable)
                       => xcalls[m].ret = xcalls[n].ret

\* C23 case: the same text file read with a client and without one
C23_Witness ==
    /\ Len(xcalls) = 2
    /\ xcalls[1].path = PathOf("x", ".txt") /\ xcalls[2].path = PathOf("x", ".txt")
    /\ xcalls[1].client /\ ~xcalls[2].client
    /\ xcalls[1].ret.success /\ xcalls[2].ret.success
    /\ xcalls[2].ret.text = Chars(<<1, 0>>)

\* ------------------------------------------------------------------ division-policy claims
\* the input has the .pdf extension and PdfReader cannot open it
Malformed == Lower(dpath.ext) = ".pdf" /\ ~fs[dpath].pdf

\* C24: a .pdf file that cannot be opened as a PDF is handled by the byte-size
\* policy and the parse error stays inside the divider: the call returns the
\* identity plan when the size is <= maxBytes, and otherwise the byte windows
\* of maxBytes bytes, in order, as <stem>_chunk_<k>.pdf.
C24_MalformedPdfFallsBackToBytes ==
    (dpc = "returned" /\ Malformed /\ dfault = NoFault)
        => IF SrcSize <= maxBytes
           THEN dret = <<dpath>> /\ DOMAIN fs = {dpath}
           ELSE /\ Len(dret) = CeilDiv(SrcSize, maxBytes)
                /\ \A k \in 1..Len(dret) :
                      /\ dret[k] = ChunkPath(dpath, k, ".pdf")
                      /\ dret[k] \in DOMAIN fs
                      /\ fs[dret[k]].data =
                             SubSeq(fs[dpath].data, (k - 1) * maxBytes + 1,
                                    Min(k * maxBytes, SrcSize))

\* C24 case: a malformed .pdf larger than maxBytes came back as byte windows
C24_Witness ==
    /\ dpc = "returned" /\ Malformed /\ dfault = NoFault
    /\ SrcSize > maxBytes /\ maxBytes >= 2
    /\ Len(dret) >= 2 /\ dret[1] # dpath
    /\ Len(fs[dret[Len(dret)]].data) < maxBytes

\* the pages of the PDF being divided step by step, and its size
StepPages == Len(fs[dpath].pages)
StepSize == getsize(fs[dpath])

\* C25: in every paged division the pages-per-chunk value the divider computed
\* is within 1..maxPages: maxPages when pages > maxPages, and
\* max(1, floor(maxPages * maxBytes / byteSize)) when only the byte limit is
\* violated, which is < maxPages for maxPages >= 2; every chunk of the plan is
\* a PDF of that many pages, the last one of the pages that remain, so each has
\* between 1 and maxPages pages.  The file a failed write leaves is not in the
\* plan and is not a PDF.
C25_PagesPerChunkInRange ==
    per_chunk # 0 =>
        /\ per_chunk \in 1..maxPages
        /\ StepPages > maxPages => per_chunk = maxPages
        /\ StepPages <= maxPages =>
              /\ StepSize > maxBytes
              /\ per_chunk = Max(1, (maxPages * maxBytes) \div StepSize)
              /\ maxPages >= 2 => per_chunk < maxPages
        /\ \A k \in 1..Len(chunk_paths) :
              /\ chunk_paths[k] \in DOMAIN fs
              /\ fs[chunk_paths[k]].pdf
              /\ Len(fs[chunk_paths[k]].pages) =
                     Min(per_chunk, StepPages - (k - 1) * per_chunk)
              /\ Len(fs[chunk_paths[k]].pages) \in 1..maxPages
        /\ \A p \in DOMAIN fs :
              (p.chunk > 0 /\ p \notin Listed(chunk_paths)) => ~fs[p].pdf

\* C25 case: only the byte limit is violated, the estimate is 2 of the 3 pages
\* allowed, and the division returned chunks of 2 and 1 pages
C25_Witness ==
    /\ spc = "returned" /\ dfault = NoFault
    /\ StepPages <= maxPages /\ maxPages = 3
    /\ per_chunk = 2
    /\ Len(dret) = 2 /\ Len(fs[dret[1]].pages) = 2 /\ Len(fs[dret[2]].pages) = 1

\* ------------------------------------------------------------------ termination claims
\* what the step-by-step run must return: the plan and the directory of
\* check_and_divide_file applied to the upload
StepSource == [p \in {dpath} |-> fs[dpath]]
StepsAgree ==
    spc = "returned" =>
        /\ dret = check_and_divide_file(StepSource, dpath, dfault).ret
        /\ fs = check_and_divide_file(StepSource, dpath, dfault).fs

\* what one step of a running division does to the loop variables
StepProgress ==
    /\ (spc = "pdf_loop" /\ spc' = "pdf_loop") =>
           /\ start_page' > start_page
           /\ start_page' <= Len(fs[dpath].pages)
           /\ chunk_num' = chunk_num + 1
    /\ (spc = "raw_loop" /\ spc' = "raw_loop") =>
           /\ offset' > offset
           /\ offset' <= Len(fs[dpath].data)
           /\ chunk_num' = chunk_num + 1
    /\ (spc = "pdf_loop" /\ spc' = "returned" /\ dret' # <<dpath>>) =>
           start_page = Len(fs[dpath].pages)
    /\ (spc = "raw_loop" /\ spc' = "returned" /\ dret' # <<dpath>>) =>
           offset = Len(fs[dpath].data)
\* the chunks written so far are numbered 1, 2, ... with no gap
StepNumbering ==
    /\ maxBytes > 0 /\ maxPages > 0
    /\ spc \in {"pdf_loop", "raw_loop"} => chunk_num = Len(chunk_paths) + 1
    /\ \A k \in 1..Len(chunk_paths) : chunk_paths[k].chunk = k

\* C26: with maxBytes > 0 and maxPages > 0 check_and_divide_file terminates on
\* every file: in paged division the start page strictly increases on every
\* iteration and never passes totalPages, in byte-window division the read
\* position strictly increases until the end of the file, the chunks are
\* numbered 1, 2, ..., k with no gap, and every call returns.
C26_DivisionTerminates ==
    [][StepProgress]_vars /\ []StepNumbering /\ <>(spc = "returned")

\* C26 case: a paged division returned after three iterations
C26_Witness ==
    /\ spc = "returned" /\ Paged /\ dfault = NoFault
    /\ Len(dret) = 3 /\ dret = chunk_paths
    /\ start_page = Len(SrcPages) /\ chunk_num = 4

\* ------------------------------------------------------------------ chunk-failure claims
\* nothing but chunk extractions failed in the running call: no exception of
\* the normalizer or the output file reached the handler
OnlyChunksFailed ==
    exc \notin {"conversion failed", "cannot write output file"}
\* the extraction step of a returned result, and whether all its chunks failed
ExtractionOutputs(r) == r.processing_steps[3].output
AllFailed(r) ==
    /\ Len(r.processing_steps) = 3
    /\ ExtractionOutputs(r) # << >>
    /\ \A k \in 1..Len(ExtractionOutputs(r)) : ~ExtractionOutputs(r)[k].success
Placeholders(n) == Join(CHUNK_SEPARATOR, [k \in 1..n |-> NO_TEXT_CHUNK])

\* C27: file-level success does not depend on how many chunks fail: a call on
\* an existing file in which nothing but chunk extractions failed returns
\* success = true with error None, one extraction result per chunk and
\* chunks_processed = N, the merged text being placeholders only when all N
\* chunks failed; and a batch run without a client, in which every chunk of
\* every file fails, counts each existing file as successful.
C27_ChunkFailuresNeverFailTheFile ==
    /\ (Returned /\ file_path \in DOMAIN fs /\ OnlyChunksFailed)
          => /\ result.success /\ result.error = None
             /\ Len(extraction_results) = NChunks
             /\ result.metadata.chunks_processed = NChunks
             /\ FailedChunks = 1..NChunks => result.extracted_text = Placeholders(NChunks)
    /\ (bpc = "returned" /\ ~client /\ faults = MaxBatchFaults)
          => /\ \A i \in 1..Len(file_paths) :
                   file_paths[i] \in DOMAIN fs =>
                       LET r == results.individual_results[i]
                       IN  /\ AllFailed(r)
                           /\ r.success /\ r.error = None
                           /\ r.metadata.chunks_processed = Len(ExtractionOutputs(r))
                           /\ r.extracted_text = Placeholders(Len(ExtractionOutputs(r)))
             /\ results.successful_files =
                   Cardinality({ i \in 1..Len(file_paths) : file_paths[i] \in DOMAIN fs })
             /\ results.successful_files >= 1 => results.success

\* C27 case: a batch of two files without a client: all three chunks of each
\* failed and both files are counted as successful
C27_Witness ==
    /\ bpc = "returned" /\ ~client /\ Len(file_paths) = 2
    /\ results.successful_files = 2 /\ results.failed_files = 0 /\ results.success
    /\ AllFailed(results.individual_results[1])
    /\ results.individual_results[1].metadata.chunks_processed = 3
    /\ Markers(results.individual_results[1].extracted_text) = 2

\* ------------------------------------------------------------------ plan claims
\* C28: check_and_divide_file returns a non-empty list of chunk paths for
\* every existing input file, an oversized PDF with zero pages and every
\* division-failure path included, and every path of the list exists.
C28_PlanNeverEmpty ==
    dpc = "returned" =>
        /\ Len(dret) >= 1
        /\ \A k \in 1..Len(dret) : dret[k] \in DOMAIN fs

\* C29: when a readable PDF with at least 2 pages has pages <= maxPages and a
\* byte size > maxBytes, the division (without I/O failure) makes progress: it
\* returns at least two chunks, each with strictly fewer pages than the source.
C29_OversizedPdfIsSplit ==
    (/\ dpc = "returned" /\ Paged /\ dfault = NoFault
     /\ Len(SrcPages) >= 2 /\ Len(SrcPages) <= maxPages /\ SrcSize > maxBytes)
        => /\ Len(dret) >= 2
           /\ \A k \in 1..Len(dret) : Len(fs[dret[k]].pages) < Len(SrcPages)

\* ------------------------------------------------------------------ response claims
\* C30: every result process_single_file returns, the results for missing
\* files and for files that failed mid-pipeline included, validates against
\* DocumentProcessingResult (its metadata has chunks_processed,
\* extraction_methods and total_file_size), and so does every entry of the
\* individual_results a batch returns.
C30_ResultsConformToSchema ==
    /\ Returned => DocumentProcessingResult(result)
    /\ bpc = "returned" =>
          \A i \in 1..Len(results.individual_results) :
              DocumentProcessingResult(results.individual_results[i])

====
